---- MODULE Spec2Model ----
(***************************************************************************)
(* Fixed-point arithmetic of nova-ecs-math (class Fixed and the value      *)
(* types built from it), modelled at the level of object identity and raw  *)
(* scaled-integer values.                                                  *)
(*                                                                         *)
(* A Fixed instance is an object with one field, its raw value.  The heap  *)
(* maps object identities to raw values; the shared constants Fixed.ZERO,  *)
(* Fixed.ONE, ... are objects of that heap, so an operation that reads     *)
(* "Fixed.ZERO" reads whatever raw value that object currently holds.      *)
(*                                                                         *)
(* Numbers: the source keeps raw values in IEEE doubles.  Every raw value  *)
(* of the model is an integer of magnitude at most MaxMag, for which the   *)
(* double arithmetic of the source is exact, so Math.round(p / q) is       *)
(* modelled by exact integer arithmetic (MathRoundMulDiv).                 *)
(***************************************************************************)
EXTENDS Integers, Sequences, FiniteSets, TLC

(***************************************************************************)
(* Program constants                                                       *)
(***************************************************************************)
SCALE ==
    1000000

SQRT_MAX_ITER ==
    20

\* Raw values of the shared instances right after class initialisation:
\* new Fixed(v) stores Math.round(v * SCALE).  SIN_TABLE_PI_4 is the instance
\* new Fixed(0.7071067811865476) stored in SIN_TABLE.
StartupRaw ==
    [ ZERO        |-> 0,
      ONE         |-> 1000000,
      PI          |-> 3141593,
      E           |-> 2718282,
      HALF        |-> 500000,
      TWO         |-> 2000000,
      PI_2        |-> 1570796,
      PI_HALF     |-> 1570796,
      PI_4        |-> 785398,
      PI_QUARTER  |-> 785398,
      TWO_PI      |-> 6283185,
      PI_TWO      |-> 6283185,
      DEG_TO_RAD  |-> 17453,
      RAD_TO_DEG  |-> 57295780,
      SIN_TABLE_PI_4 |-> 707107 ]

\* the shared instances: the static constants and the instance that
\* SIN_TABLE holds for sin(PI/4)
SharedNames ==
    DOMAIN StartupRaw

(***************************************************************************)
(* Bounds of the model                                                     *)
(***************************************************************************)
\* Largest magnitude of a raw value (and of a divisor) the model computes
\* with; a call whose computation leaves this range is outside the model.
MaxMag ==
    1073741822

(***************************************************************************)
(* Outcomes of a call: a returned object or a thrown Error.                *)
(*   err  "" for a normal return, else the message of the thrown Error     *)
(*        ("out-of-model" marks a computation beyond MaxMag);              *)
(*   raw  the raw value of the returned object;                            *)
(*   src  which object is returned: "new" for a freshly created instance,  *)
(*        "op1"/"op2"/"op3" for the receiver / first / second argument,    *)
(*        or the name of a shared constant;                                *)
(*   write  TRUE when raw was assigned to the receiver's _value.           *)
(***************************************************************************)
OutOfModel ==
    "out-of-model"

Abs(x) ==
    IF x < 0 THEN -x ELSE x

Fail(msg) ==
    [err |-> msg, raw |-> 0, src |-> "none", write |-> FALSE]

Return(raw, src) ==
    IF Abs(raw) > MaxMag THEN Fail(OutOfModel)
    ELSE [err |-> "", raw |-> raw, src |-> src, write |-> FALSE]

\* an in-place operation: the receiver's _value is assigned, "this" returned
Assign(raw) ==
    IF Abs(raw) > MaxMag THEN Fail(OutOfModel)
    ELSE [err |-> "", raw |-> raw, src |-> "op1", write |-> TRUE]

\* sequencing of calls: an exception of the first call propagates
Then(o, F(_)) ==
    IF o.err # "" THEN Fail(o.err) ELSE F(o.raw)

(***************************************************************************)
(* Math.round((a * b) / c), exactly.                                       *)
(* Math.round rounds to the nearest integer and rounds a tie (fraction     *)
(* exactly .5) toward +Infinity.  The product a*b does not fit the         *)
(* model checker's integers, so quotient and remainder of |a|*|b| by |c|   *)
(* are accumulated bit by bit over b.                                      *)
(***************************************************************************)
\* one bit of B: from h, quotient and remainder of A * (B \div 2) by C, to
\* those of A * B by C; a quotient beyond MaxMag is reported as -1
MulDivStep(h, A, bit, C) ==
    IF h.q < 0 \/ h.q > MaxMag \div 2 THEN [q |-> -1, r |-> 0]
    ELSE LET c2 == IF 2 * h.r >= C THEN 1 ELSE 0
             dq == 2 * h.q + c2
             dr == 2 * h.r - c2 * C
             ar == dr + (A % C)
             c1 == IF ar >= C THEN 1 ELSE 0
             aq == (A \div C) + c1
         IN  IF bit = 0 THEN [q |-> dq, r |-> dr]
             ELSE IF dq > MaxMag - aq THEN [q |-> -1, r |-> 0]
             ELSE [q |-> dq + aq, r |-> ar - c1 * C]

\* number of binary digits of n >= 0
BitLength(n) ==
    Cardinality({i \in 0 .. 30 : 2^i <= n})

\* quotient and remainder of A * B by C, accumulated over the binary digits
\* of B from the most significant one down
MulDivQR(A, B, C) ==
    LET bits[h \in [q : Int, r : Int], i \in Int] ==
            IF i < 0 THEN h
            ELSE bits[MulDivStep(h, A, (B \div 2^i) % 2, C), i - 1]
    IN  bits[[q |-> 0, r |-> 0], BitLength(B) - 1]

\* ties toward +Infinity: a positive quotient rounds up at .5, a negative
\* one rounds toward zero at .5
RoundHalfUp(negative, q, r, C) ==
    IF negative THEN -(q + (IF r > C - r THEN 1 ELSE 0))
    ELSE q + (IF r >= C - r THEN 1 ELSE 0)

\* Math.round of the quotient h (q and remainder r) of a division by C
RoundedQuotient(negative, h, C) ==
    IF h.q < 0 THEN Fail(OutOfModel)
    ELSE Return(RoundHalfUp(negative, h.q, h.r, C), "new")

MathRoundMulDiv(a, b, c) ==
    IF Abs(a) > MaxMag \/ Abs(b) > MaxMag \/ Abs(c) > MaxMag THEN Fail(OutOfModel)
    ELSE RoundedQuotient(((a < 0) # (b < 0)) # (c < 0),
                         MulDivQR(Abs(a), Abs(b), Abs(c)), Abs(c))

(***************************************************************************)
(* Conversions                                                             *)
(***************************************************************************)
\* toNumber(): the number raw / SCALE, kept as an exact fraction
toNumber(raw) ==
    [num |-> raw, den |-> SCALE]

\* new Fixed(value: number): Math.round(value * SCALE)
FixedOfNumber(v) ==
    MathRoundMulDiv(v.num, SCALE, v.den)

\* the characters parseFloat reads as decimal digits
DigitValue ==
    ("0" :> 0) @@ ("1" :> 1) @@ ("2" :> 2) @@ ("3" :> 3) @@ ("4" :> 4)
        @@ ("5" :> 5) @@ ("6" :> 6) @@ ("7" :> 7) @@ ("8" :> 8) @@ ("9" :> 9)

IsDigit(c) ==
    c \in DOMAIN DigitValue

IsSpace(c) ==
    c = " "

\* the index after the longest run of characters with P that starts at i in
\* the string s (a sequence of characters)
RunEnd(s, i, P(_)) ==
    CHOOSE j \in i .. (Len(s) + 1) :
        /\ j = Len(s) + 1 \/ ~P(s[j])
        /\ \A k \in i .. (j - 1) : P(s[k])

\* the number written by the digits s[i], ..., s[j - 1]
DigitsValue(s, i, j) ==
    LET val[k \in Int] ==
            IF k < i THEN 0 ELSE 10 * val[k - 1] + DigitValue[s[k]]
    IN  val[j - 1]

\* the number read from s between the indices b (first digit), c (end of the
\* integer digits) and d (end of the fraction digits), NaN if there is no
\* digit
DecimalAt(s, negative, b, c, d) ==
    IF (c - b) + (IF d > c THEN d - c - 1 ELSE 0) = 0
    THEN [nan |-> TRUE, num |-> 0, den |-> 1]
    ELSE [nan |-> FALSE,
          num |-> (IF negative THEN -1 ELSE 1)
                      * (DigitsValue(s, b, c) * 10 ^ (IF d > c THEN d - c - 1 ELSE 0)
                         + (IF d > c THEN DigitsValue(s, c + 1, d) ELSE 0)),
          den |-> 10 ^ (IF d > c THEN d - c - 1 ELSE 0)]

\* the decimal that starts at index a of s: a sign, digits, and a point
\* with digits
SignedDecimalAt(s, a, b) ==
    DecimalAt(s, a <= Len(s) /\ s[a] = "-", b, RunEnd(s, b, IsDigit),
              IF RunEnd(s, b, IsDigit) <= Len(s) /\ s[RunEnd(s, b, IsDigit)] = "."
              THEN RunEnd(s, RunEnd(s, b, IsDigit) + 1, IsDigit)
              ELSE RunEnd(s, b, IsDigit))

DecimalFrom(s, a) ==
    SignedDecimalAt(s, a, IF a <= Len(s) /\ s[a] \in {"+", "-"} THEN a + 1 ELSE a)

\* parseFloat(s): leading blanks are skipped, the longest prefix that is a
\* decimal is read and the rest of the string is ignored; NaN if there is
\* no such prefix.  (Exponent parts and "Infinity" are not read here; no
\* string the model constructs from has them.)
parseFloat(s) ==
    DecimalFrom(s, RunEnd(s, 1, IsSpace))

\* Math.round(p * SCALE) for the number p that parseFloat returned:
\* Math.round(NaN) is NaN, and nothing is thrown
RoundParsed(p) ==
    IF p.nan THEN [err |-> "", raw |-> 0, nan |-> TRUE, src |-> "new"]
    ELSE [err |-> FixedOfNumber(p).err, raw |-> FixedOfNumber(p).raw,
          nan |-> FALSE, src |-> "new"]

\* new Fixed(value: string)
FixedOfString(s) ==
    RoundParsed(parseFloat(s))

\* new Fixed(n) for an integer literal n
FixedOfInt(n) ==
    n * SCALE

(***************************************************************************)
(* Arithmetic on raw values.  K is the record of the raw values the shared *)
(* constants hold when the call is made.                                   *)
(***************************************************************************)
add(a, b) ==
    Return(a + b, "new")

subtract(a, b) ==
    Return(a - b, "new")

\* variant of multiply that drops the fraction instead of rounding it
multiplyTruncating(a, b) ==
    LET h == MulDivQR(Abs(a), Abs(b), SCALE)
    IN  Return((IF (a < 0) # (b < 0) THEN -1 ELSE 1) * h.q, "new")

multiply(a, b) ==
    MathRoundMulDiv(a, b, SCALE)

divide(a, b) ==
    IF b = 0 THEN Fail("Division by zero")
    ELSE MathRoundMulDiv(a, SCALE, b)

addInPlace(a, b) ==
    Assign(a + b)

\* variant of subtractInPlace with the operands exchanged
subtractInPlaceSwapped(a, b) ==
    Assign(b - a)

subtractInPlace(a, b) ==
    Assign(a - b)

multiplyInPlace(a, b) ==
    Then(MathRoundMulDiv(a, b, SCALE), LAMBDA v : Assign(v))

divideInPlace(a, b) ==
    IF b = 0 THEN Fail("Division by zero")
    ELSE Then(MathRoundMulDiv(a, SCALE, b), LAMBDA v : Assign(v))

abs(a) ==
    Return(Abs(a), "new")

negate(a) ==
    Return(-a, "new")

\* variant of floor that truncates toward zero
floorTowardZero(a) ==
    Return((IF a < 0 THEN -(Abs(a) \div SCALE) ELSE a \div SCALE) * SCALE, "new")

\* Math.floor(raw / SCALE) * SCALE
floor(a) ==
    Return((a \div SCALE) * SCALE, "new")

\* Math.ceil(raw / SCALE) * SCALE
ceil(a) ==
    Return((-((-a) \div SCALE)) * SCALE, "new")

\* Math.round(raw / SCALE) * SCALE
round(a) ==
    Return(((2 * a + SCALE) \div (2 * SCALE)) * SCALE, "new")

frac(a) ==
    Then(floor(a), LAMBDA f : subtract(a, f))

min(a, b) ==
    IF a < b THEN Return(a, "op1") ELSE Return(b, "op2")

max(a, b) ==
    IF a > b THEN Return(a, "op1") ELSE Return(b, "op2")

clamp(a, lo, hi) ==
    IF a < lo THEN Return(lo, "op2")
    ELSE IF a > hi THEN Return(hi, "op3")
    ELSE FixedOfNumber(toNumber(a))

\* variant of mod without the test for a zero divisor
modUnchecked(K, a, b) ==
    LET quotient == Then(divide(a, b), LAMBDA q : floor(q))
    IN  Then(Then(quotient, LAMBDA q : multiply(b, q)),
             LAMBDA p : subtract(a, p))

mod(K, a, b) ==
    IF b = K.ZERO THEN Fail("Modulo by zero")
    ELSE LET quotient == Then(divide(a, b), LAMBDA q : floor(q))
         IN  Then(Then(quotient, LAMBDA q : multiply(b, q)),
                  LAMBDA p : subtract(a, p))

(***************************************************************************)
(* sqrt: Newton's method, at most SQRT_MAX_ITER rounds.  The outcome also  *)
(* records how the loop ended: iters rounds were run, and brk tells        *)
(* whether the convergence test left the loop.                             *)
(***************************************************************************)
SqrtDone(o, iters, brk) ==
    [err |-> o.err, raw |-> o.raw, src |-> o.src, write |-> FALSE,
     iters |-> iters, brk |-> brk]

\* one round of the loop, from the state s of the loop (x, the rounds i run
\* so far): x = x.add(this.divide(x)).divide(Fixed.TWO), then the test for
\* convergence
\* the state of the loop of sqrt after a round that computed next from
\* the state s (x, the rounds i run so far)
sqrtAdvance(s, next) ==
    IF next.err # ""
    THEN [x |-> s.x, i |-> s.i + 1, err |-> next.err, brk |-> FALSE]
    ELSE [x |-> next.raw, i |-> s.i + 1, err |-> "",
          brk |-> Abs(next.raw - s.x) <= 1]

sqrtRound(K, a, s) ==
    sqrtAdvance(s, Then(Then(divide(a, s.x), LAMBDA q : add(s.x, q)),
                        LAMBDA t : divide(t, K.TWO)))

\* for (i = 0; i < 20; i++) { ...; if (...) break; }
sqrtLoop(K, a, x0) ==
    LET loop[s \in [x : Int, i : Nat, err : STRING, brk : BOOLEAN]] ==
            IF s.err # "" \/ s.brk \/ s.i >= SQRT_MAX_ITER THEN s
            ELSE loop[sqrtRound(K, a, s)]
    IN  loop[[x |-> x0, i |-> 0, err |-> "", brk |-> FALSE]]

sqrtResult(s) ==
    SqrtDone(IF s.err # "" THEN Fail(s.err) ELSE Return(s.x, "new"), s.i, s.brk)

\* the loop of sqrt and its result, from the initial guess x0
sqrtFrom(K, a, x0) ==
    IF x0.err # "" THEN SqrtDone(x0, 0, FALSE)
    ELSE sqrtResult(sqrtLoop(K, a, x0.raw))

sqrt(K, a) ==
    IF a < K.ZERO THEN SqrtDone(Fail("Square root of negative number"), 0, FALSE)
    ELSE IF a = K.ZERO THEN SqrtDone(Return(K.ZERO, "ZERO"), 0, FALSE)
    ELSE IF a = K.ONE THEN SqrtDone(Return(K.ONE, "ONE"), 0, FALSE)
    ELSE sqrtFrom(K, a, IF a > K.ONE THEN divide(a, K.TWO)
                        ELSE Return(K.ONE, "ONE"))

(***************************************************************************)
(* Trigonometry.  An angle is normalised to (-PI, PI], looked up in        *)
(* SIN_TABLE and otherwise summed from six terms of the Taylor series.     *)
(***************************************************************************)
\* the outcome of a call that never returns
Diverges ==
    "does not return"

FACTORIALS ==
    <<1, 1, 2, 6, 24, 120, 720, 5040, 40320, 362880, 3628800, 39916800,
      479001600>>

\* SIN_TABLE: the keys are the raw values the constants had when the table
\* was built, the entries are the shared instances themselves
SIN_TABLE ==
    (0 :> "ZERO") @@ (StartupRaw.PI_4 :> "SIN_TABLE_PI_4")
        @@ (StartupRaw.PI_2 :> "ONE") @@ (StartupRaw.PI :> "ZERO")

\* t.divide(new Fixed(n)) for an integer n: Math.round((t * SCALE) /
\* (n * SCALE)).  n * SCALE is beyond the integers of the model for the
\* larger factorials; both products are exact in the source and the quotient
\* is the number t / n, which is what is rounded here.
divideByFixedOfInt(t, n) ==
    IF n = 0 THEN Fail("Division by zero")
    ELSE MathRoundMulDiv(t, 1, n)

\* while (normalized > PI) normalized = normalized.subtract(TWO_PI): the
\* loop subtracts TWO_PI the least number of times that brings the angle to
\* PI or below, and never ends when TWO_PI is not positive
roundsAbove(K, n) ==
    IF n <= K.PI THEN 0 ELSE (n - K.PI + K.TWO_PI - 1) \div K.TWO_PI

reduceAbove(K, n) ==
    IF n <= K.PI THEN Return(n, "new")
    ELSE IF K.TWO_PI <= 0 THEN Fail(Diverges)
    ELSE Return(n - roundsAbove(K, n) * K.TWO_PI, "new")

\* while (normalized <= -PI) normalized = normalized.add(TWO_PI)
roundsBelow(K, n) ==
    IF n > -K.PI THEN 0 ELSE ((-K.PI - n) \div K.TWO_PI) + 1

\* variant of the second loop that stops at -PI: while (normalized < -PI)
reduceBelowStrict(K, n) ==
    IF n >= -K.PI THEN Return(n, "new")
    ELSE IF K.TWO_PI <= 0 THEN Fail(Diverges)
    ELSE Return(n + roundsBelow(K, n) * K.TWO_PI, "new")

reduceBelow(K, n) ==
    IF n > -K.PI THEN Return(n, "new")
    ELSE IF K.TWO_PI <= 0 THEN Fail(Diverges)
    ELSE Return(n + roundsBelow(K, n) * K.TWO_PI, "new")

normalizeAngle(K, angle) ==
    Then(Then(FixedOfNumber(toNumber(angle)), LAMBDA n : reduceAbove(K, n)),
         LAMBDA n : reduceBelow(K, n))

\* the rounds the two loops of normalizeAngle(angle) make together, angle
\* being an angle the call returns for
normalizeRounds(K, angle) ==
    roundsAbove(K, angle) + roundsBelow(K, reduceAbove(K, angle).raw)

\* one round of the loop of sin, from its state s (i, result, term,
\* termSign)
sinAdvance(s, r, t) ==
    [i |-> s.i + 2, result |-> r.raw, term |-> t.raw, termSign |-> -s.termSign,
     err |-> IF r.err # "" THEN r.err ELSE t.err]

sinTerm(s, x_squared) ==
    sinAdvance(s, Then(Then(multiply(s.term, s.termSign),
                            LAMBDA t : divideByFixedOfInt(t, FACTORIALS[s.i + 1])),
                       LAMBDA q : add(s.result, q)),
               multiply(s.term, x_squared))

\* for (i = 1; i <= 11; i += 2) { ... }
sinSum(end) ==
    IF end.err # "" THEN Fail(end.err) ELSE Return(end.result, "new")

sinSeries(K, x, x_squared) ==
    LET loop[s \in [i : Nat, result : Int, term : Int, termSign : Int,
                    err : STRING]] ==
            IF s.err # "" \/ s.i > 11 THEN s ELSE loop[sinTerm(s, x_squared)]
    IN  sinSum(loop[[i |-> 1, result |-> K.ZERO, term |-> x,
                     termSign |-> K.ONE, err |-> ""]])

\* variant of sin that sums the series for every angle
sinSeriesOnly(K, n) ==
    LET x1   == IF n < K.ZERO THEN -n ELSE n
        sign == IF n < K.ZERO THEN -K.ONE ELSE K.ONE
        x    == IF x1 > K.PI_2 THEN K.PI - x1 ELSE x1
    IN  Then(Then(multiply(x, x),
                  LAMBDA x_squared : sinSeries(K, x, x_squared)),
             LAMBDA result : multiply(result, sign))

\* sin of a normalised angle n
sinNormalized(K, n) ==
    IF n \in DOMAIN SIN_TABLE THEN Return(K[SIN_TABLE[n]], SIN_TABLE[n])
    ELSE LET x1   == IF n < K.ZERO THEN -n ELSE n
             sign == IF n < K.ZERO THEN -K.ONE ELSE K.ONE
             x    == IF x1 > K.PI_2 THEN K.PI - x1 ELSE x1
         IN  Then(Then(multiply(x, x),
                       LAMBDA x_squared : sinSeries(K, x, x_squared)),
                  LAMBDA result : multiply(result, sign))

sin(K, angle) ==
    Then(normalizeAngle(K, angle), LAMBDA n : sinNormalized(K, n))

cos(K, angle) ==
    Then(add(angle, K.PI_HALF), LAMBDA s : sin(K, s))

ASIN_MAX_ITER ==
    10

\* variant of the update that adds the step
asinUpdateAdding(s, delta) ==
    IF delta.err # "" THEN [s EXCEPT !.err = delta.err]
    ELSE LET y1 == add(s.y, delta.raw)
         IN  [y |-> y1.raw, i |-> s.i + 1, err |-> y1.err,
              done |-> Abs(delta.raw) <= 1]

\* the next state of the loop of asin after the step delta
asinUpdate(s, delta) ==
    IF delta.err # "" THEN [s EXCEPT !.err = delta.err]
    ELSE LET y1 == subtract(s.y, delta.raw)
         IN  [y |-> y1.raw, i |-> s.i + 1, err |-> y1.err,
              done |-> Abs(delta.raw) <= 1]

\* one round of the loop of asin, from its state s (y, the rounds i run so
\* far)
asinRound(K, a, s, sinY, cosY) ==
    IF sinY.err # "" THEN [s EXCEPT !.err = sinY.err]
    ELSE IF cosY.err # "" THEN [s EXCEPT !.err = cosY.err]
    ELSE IF cosY.raw = K.ZERO THEN [s EXCEPT !.done = TRUE]
    ELSE asinUpdate(s, Then(subtract(sinY.raw, a),
                            LAMBDA d : divide(d, cosY.raw)))

\* for (i = 0; i < 10; i++) { ...; if (...) break; }
asinResult(end) ==
    IF end.err # "" THEN Fail(end.err) ELSE Return(end.y, "new")

asinLoop(K, a, y0) ==
    LET loop[s \in [y : Int, i : Nat, err : STRING, done : BOOLEAN]] ==
            IF s.err # "" \/ s.done \/ s.i >= ASIN_MAX_ITER THEN s
            ELSE loop[asinRound(K, a, s, sin(K, s.y), cos(K, s.y))]
    IN  asinResult(loop[[y |-> y0, i |-> 0, err |-> "", done |-> FALSE]])

asin(K, a) ==
    IF Abs(a) > K.ONE
    THEN Fail("Arcsine domain error: input must be in [-1, 1]")
    ELSE IF a = K.ZERO THEN Return(K.ZERO, "ZERO")
    ELSE IF a = K.ONE THEN Return(K.PI_2, "PI_2")
    ELSE IF a = FixedOfInt(-1) THEN negate(K.PI_2)
    ELSE Then(FixedOfNumber(toNumber(a)), LAMBDA y : asinLoop(K, a, y))

\* variant of acos that leaves the domain test to asin
acosUnchecked(K, a) ==
    Then(asin(K, a), LAMBDA r : subtract(K.PI_2, r))

acos(K, a) ==
    IF Abs(a) > K.ONE
    THEN Fail("Arccosine domain error: input must be in [-1, 1]")
    ELSE Then(asin(K, a), LAMBDA r : subtract(K.PI_2, r))

\* variant of tan that tests the cosine for being exactly zero
tanExactZero(K, angle) ==
    Then(cos(K, angle),
         LAMBDA cosValue :
             IF cosValue = 0 THEN Fail("Tangent undefined")
             ELSE Then(sin(K, angle), LAMBDA s : divide(s, cosValue)))

\* new Fixed(0.01) is the threshold below which the cosine counts as zero
tan(K, angle) ==
    Then(cos(K, angle),
         LAMBDA cosValue :
             IF Abs(cosValue) < FixedOfNumber([num |-> 1, den |-> 100]).raw
             THEN Fail("Tangent undefined")
             ELSE Then(sin(K, angle), LAMBDA s : divide(s, cosValue)))

\* atan(x) = asin(x / sqrt(1 + x^2))
atan(K, a) ==
    Then(Then(Then(Then(multiply(a, a), LAMBDA x_squared : add(K.ONE, x_squared)),
                   LAMBDA s : sqrt(K, s)),
              LAMBDA denominator : divide(a, denominator)),
         LAMBDA r : asin(K, r))

\* variant of atan2 that takes y = 0 with the negative y
atan2StrictY(K, y, x) ==
    IF x = K.ZERO /\ y = K.ZERO THEN Fail("atan2 undefined for (0, 0)")
    ELSE IF x > K.ZERO THEN Then(divide(y, x), LAMBDA q : atan(K, q))
    ELSE IF x < K.ZERO
    THEN IF y > K.ZERO
         THEN Then(Then(divide(y, x), LAMBDA q : atan(K, q)),
                   LAMBDA r : add(r, K.PI))
         ELSE Then(Then(divide(y, x), LAMBDA q : atan(K, q)),
                   LAMBDA r : subtract(r, K.PI))
    ELSE IF y > K.ZERO THEN Return(K.PI_2, "PI_2")
    ELSE negate(K.PI_2)

atan2(K, y, x) ==
    IF x = K.ZERO /\ y = K.ZERO THEN Fail("atan2 undefined for (0, 0)")
    ELSE IF x > K.ZERO THEN Then(divide(y, x), LAMBDA q : atan(K, q))
    ELSE IF x < K.ZERO
    THEN IF y >= K.ZERO
         THEN Then(Then(divide(y, x), LAMBDA q : atan(K, q)),
                   LAMBDA r : add(r, K.PI))
         ELSE Then(Then(divide(y, x), LAMBDA q : atan(K, q)),
                   LAMBDA r : subtract(r, K.PI))
    ELSE IF y > K.ZERO THEN Return(K.PI_2, "PI_2")
    ELSE negate(K.PI_2)

(***************************************************************************)
(* ln, exp and pow                                                         *)
(***************************************************************************)
LN_LAST_TERM ==
    20

\* one round of the loop of ln, from its state s (i, result, term)
lnAdvance(s, r, t) ==
    [i |-> s.i + 2, result |-> r.raw, term |-> t.raw,
     err |-> IF r.err # "" THEN r.err ELSE t.err]

lnTerm(s, ratio_squared) ==
    lnAdvance(s, Then(divideByFixedOfInt(s.term, s.i),
                      LAMBDA q : add(s.result, q)),
              multiply(s.term, ratio_squared))

lnSum(K, end) ==
    IF end.err # "" THEN Fail(end.err) ELSE multiply(end.result, K.TWO)

\* for (i = 1; i <= 20; i += 2) { ... } return result.multiply(Fixed.TWO)
lnSeries(K, ratio, ratio_squared) ==
    LET loop[s \in [i : Nat, result : Int, term : Int, err : STRING]] ==
            IF s.err # "" \/ s.i > LN_LAST_TERM THEN s
            ELSE loop[lnTerm(s, ratio_squared)]
    IN  lnSum(K, loop[[i |-> 1, result |-> K.ZERO, term |-> ratio, err |-> ""]])

\* variant of ln that accepts zero
lnAcceptingZero(K, x) ==
    IF x < K.ZERO
    THEN Fail("Logarithm domain error: input must be positive")
    ELSE IF x = K.ONE THEN Return(K.ZERO, "ZERO")
    ELSE Then(Then(add(x, K.ONE),
                   LAMBDA denominator : divide(x - K.ONE, denominator)),
              LAMBDA ratio :
                  Then(multiply(ratio, ratio),
                       LAMBDA ratio_squared : lnSeries(K, ratio, ratio_squared)))

ln(K, x) ==
    IF x <= K.ZERO
    THEN Fail("Logarithm domain error: input must be positive")
    ELSE IF x = K.ONE THEN Return(K.ZERO, "ZERO")
    ELSE Then(Then(add(x, K.ONE),
                   LAMBDA denominator : divide(x - K.ONE, denominator)),
              LAMBDA ratio :
                  Then(multiply(ratio, ratio),
                       LAMBDA ratio_squared : lnSeries(K, ratio, ratio_squared)))

EXP_LAST_TERM ==
    20

\* one round of the loop of exp, from its state s (i, result, term)
expAdvance(s, t) ==
    IF t.err # "" THEN [s EXCEPT !.err = t.err]
    ELSE [i |-> s.i + 1, result |-> s.result + t.raw, term |-> t.raw,
          err |-> IF Abs(s.result + t.raw) > MaxMag THEN OutOfModel ELSE ""]

expTerm(s, x) ==
    expAdvance(s, Then(multiply(s.term, x),
                       LAMBDA p : divideByFixedOfInt(p, s.i)))

expSum(end) ==
    IF end.err # "" THEN Fail(end.err) ELSE Return(end.result, "new")

\* for (i = 1; i <= 20; i++) { ... } return result
exp(K, x) ==
    LET loop[s \in [i : Nat, result : Int, term : Int, err : STRING]] ==
            IF s.err # "" \/ s.i > EXP_LAST_TERM THEN s ELSE loop[expTerm(s, x)]
    IN  expSum(loop[[i |-> 1, result |-> K.ONE, term |-> K.ONE, err |-> ""]])

\* the state of the loop of pow after a round: n is the raw value of the
\* number n, rsrc the instance that result refers to
powAdvance(s, r, b) ==
    [n |-> (s.n \div (2 * SCALE)) * SCALE, result |-> r.raw, rsrc |-> r.src,
     base |-> b.raw, err |-> IF r.err # "" THEN r.err ELSE b.err]

\* variant of the round that leaves the base unsquared
powRoundNoSquare(s) ==
    powAdvance(s,
               IF s.n % (2 * SCALE) = SCALE THEN multiply(s.result, s.base)
               ELSE Return(s.result, s.rsrc),
               Return(s.base, "new"))

\* if (n % 2 === 1) result = result.multiply(base); base =
\* base.multiply(base); n = Math.floor(n / 2).  The base squared in the last
\* round (n becomes 0) is never read and is not computed here.
powRound(s) ==
    powAdvance(s,
               IF s.n % (2 * SCALE) = SCALE THEN multiply(s.result, s.base)
               ELSE Return(s.result, s.rsrc),
               IF s.n \div (2 * SCALE) = 0 THEN Return(s.base, "new")
               ELSE multiply(s.base, s.base))

\* while (n > 0) { ... }
powLoop(n0, result0, base0) ==
    LET loop[s \in [n : Int, result : Int, rsrc : STRING, base : Int,
                    err : STRING]] ==
            IF s.err # "" \/ s.n <= 0 THEN s ELSE loop[powRound(s)]
    IN  loop[[n |-> n0, result |-> result0, rsrc |-> "ONE", base |-> base0,
              err |-> ""]]

\* return exponent.lessThan(Fixed.ZERO) ? Fixed.ONE.divide(result) : result
powFinish(K, e, end) ==
    IF end.err # "" THEN Fail(end.err)
    ELSE IF e < K.ZERO THEN divide(K.ONE, end.result)
    ELSE Return(end.result, end.rsrc)

\* the branches of pow for an exponent other than 0 and 1; f is
\* exponent.frac()
powBranch(K, x, e, f) ==
    IF f.err # "" THEN Fail(f.err)
    ELSE IF f.raw = K.ZERO
    THEN Then(FixedOfNumber(toNumber(x)),
              LAMBDA base : powFinish(K, e, powLoop(Abs(e), K.ONE, base)))
    ELSE Then(Then(ln(K, x), LAMBDA l : multiply(l, e)),
              LAMBDA p : exp(K, p))

\* variant of pow that returns the receiver itself for the exponent 1
powAliasing(K, x, e) ==
    IF e = K.ZERO THEN Return(K.ONE, "ONE")
    ELSE IF e = K.ONE THEN Return(x, "op1")
    ELSE powBranch(K, x, e, frac(e))

pow(K, x, e) ==
    IF e = K.ZERO THEN Return(K.ONE, "ONE")
    ELSE IF e = K.ONE THEN FixedOfNumber(toNumber(x))
    ELSE powBranch(K, x, e, frac(e))

(***************************************************************************)
(* Raw values beyond the integers of the model checker.  A raw value is a  *)
(* double in the source, which holds integers far larger than MaxMag; here *)
(* a non-negative raw value is kept in two limbs, hi * WideBase + lo, and  *)
(* sqrt is computed on it as the source computes it.  The inputs used are  *)
(* ones for which every intermediate double of the source is the exact     *)
(* integer.                                                                *)
(***************************************************************************)
WideBase ==
    2^28

Wide(hi, lo) ==
    [hi |-> hi, lo |-> lo]

WideOf(n) ==
    Wide(n \div WideBase, n % WideBase)

WideAdd(u, v) ==
    Wide(u.hi + v.hi + ((u.lo + v.lo) \div WideBase), (u.lo + v.lo) % WideBase)

\* u - v for u >= v
WideSub(u, v) ==
    IF u.lo >= v.lo THEN Wide(u.hi - v.hi, u.lo - v.lo)
    ELSE Wide(u.hi - v.hi - 1, u.lo - v.lo + WideBase)

WideLeq(u, v) ==
    u.hi < v.hi \/ (u.hi = v.hi /\ u.lo <= v.lo)

\* |u - v|
WideDist(u, v) ==
    IF WideLeq(v, u) THEN WideSub(u, v) ELSE WideSub(v, u)

\* u * k for k in 0 .. 7
WideSmallTimes(u, k) ==
    Wide(u.hi * k + ((u.lo * k) \div WideBase), (u.lo * k) % WideBase)

\* the digit of weight 4^i of u
WideDigitAt(u, i) ==
    IF i < 14 THEN (u.lo \div 4^i) % 4 ELSE (u.hi \div 4^(i - 14)) % 4

\* the digit of weight 4^i of an integer n of the model
DigitAt(n, i) ==
    (n \div 4^i) % 4

WideSet ==
    [hi : Nat, lo : Nat]

\* u * n, accumulated over the digits of n
WideTimes(u, n) ==
    LET digits[acc \in WideSet, i \in Int] ==
            IF i < 0 THEN acc
            ELSE digits[WideAdd(WideSmallTimes(acc, 4),
                                WideSmallTimes(u, DigitAt(n, i))), i - 1]
    IN  digits[WideOf(0), 15]

\* R \div C for R < 7 * C
WideDigit(R, C) ==
    Cardinality({k \in 1 .. 6 : WideLeq(WideSmallTimes(C, k), R)})

\* quotient and remainder by C of 4 * (h.q * C + h.r) + d * (g.q * C + g.r),
\* for d in 0 .. 3
WideQRStep(h, d, g, C) ==
    LET R == WideAdd(WideSmallTimes(h.r, 4), WideSmallTimes(g.r, d))
        k == WideDigit(R, C)
    IN  [q |-> WideAdd(WideAdd(WideSmallTimes(h.q, 4), WideSmallTimes(g.q, d)),
                       WideOf(k)),
         r |-> WideSub(R, WideSmallTimes(C, k))]

\* quotient and remainder of A by C, over the digits of A
WideDivMod(A, C) ==
    LET digits[h \in [q : WideSet, r : WideSet], i \in Int] ==
            IF i < 0 THEN h
            ELSE digits[WideQRStep(h, WideDigitAt(A, i),
                                   [q |-> WideOf(0), r |-> WideOf(1)], C), i - 1]
    IN  digits[[q |-> WideOf(0), r |-> WideOf(0)], 29]

\* quotient and remainder of A * B by C, for an integer B of the model,
\* over the digits of B
WideMulDivQR(A, B, C) ==
    LET AC == WideDivMod(A, C)
        digits[h \in [q : WideSet, r : WideSet], i \in Int] ==
            IF i < 0 THEN h
            ELSE digits[WideQRStep(h, DigitAt(B, i), AC, C), i - 1]
    IN  digits[[q |-> WideOf(0), r |-> WideOf(0)], 15]

\* x.divide(y) for x >= 0, y > 0: Math.round((x * SCALE) / y)
WideRound(h, y) ==
    IF WideLeq(y, WideSmallTimes(h.r, 2)) THEN WideAdd(h.q, WideOf(1)) ELSE h.q

WideDivide(x, y) ==
    WideRound(WideMulDivQR(x, SCALE, y), y)

\* one round of the loop of sqrt
WideSqrtAdvance(s, next) ==
    [x |-> next, i |-> s.i + 1, brk |-> WideLeq(WideDist(next, s.x), WideOf(1))]

WideSqrtRound(K, a, s) ==
    WideSqrtAdvance(s, WideDivide(WideAdd(s.x, WideDivide(a, s.x)),
                                  WideOf(K.TWO)))

WideSqrtLoop(K, a, x0) ==
    LET loop[s \in [x : WideSet, i : Nat, brk : BOOLEAN]] ==
            IF s.brk \/ s.i >= SQRT_MAX_ITER THEN s
            ELSE loop[WideSqrtRound(K, a, s)]
    IN  loop[[x |-> x0, i |-> 0, brk |-> FALSE]]

\* a.sqrt() for a raw value a beyond MaxMag (so a > Fixed.ONE)
WideSqrtResult(end) ==
    [err |-> "", raw |-> end.x, iters |-> end.i, brk |-> end.brk]

WideSqrt(K, a) ==
    WideSqrtResult(WideSqrtLoop(K, a, WideDivide(a, WideOf(K.TWO))))

(***************************************************************************)
(* The program state                                                       *)
(*   heap   raw value (_value) of every Fixed instance, by identity;       *)
(*   reg    the client's variables, each holding a reference to a Fixed    *)
(*          instance it got from a constructor or as a result (0: unset);  *)
(*   cache  Fixed._cache: raw key -> reference of the cached instance;     *)
(*   calls  number of API calls made so far;                               *)
(*   last   the most recent API call: operation, the operands' identities  *)
(*          (ref1..ref3) and raw values when it was made (a, b, c) and     *)
(*          when it returned (a1, b1, c1), and its outcome.                *)
(***************************************************************************)
VARIABLES heap, reg, cache, calls, last, vec

vars == <<heap, reg, cache, calls, last, vec>>

MAX_CACHE_SIZE ==
    1000

\* identities of the shared instances
SharedId ==
    [ ZERO |-> 1, ONE |-> 2, PI |-> 3, E |-> 4, HALF |-> 5, TWO |-> 6,
      PI_2 |-> 7, PI_HALF |-> 8, PI_4 |-> 9, PI_QUARTER |-> 10,
      TWO_PI |-> 11, PI_TWO |-> 12, DEG_TO_RAD |-> 13, RAD_TO_DEG |-> 14,
      SIN_TABLE_PI_4 |-> 15 ]

SharedObjs ==
    {SharedId[n] : n \in SharedNames}

\* the client's variables: x holds the instance it constructed last, y the
\* instance the last operation returned
Regs ==
    {"x", "y"}

\* raw values the client constructs Fixed instances from
InputRaws ==
    {0, SCALE, 4 * SCALE, -7 * SCALE}

\* number of API calls of a run
MaxCalls ==
    3

\* identities available to instances created at run time
DynObjs ==
    (Cardinality(SharedObjs) + 1) ..
        (Cardinality(SharedObjs) + Cardinality(Regs) + Cardinality(InputRaws) + 1)

Objs ==
    SharedObjs \cup DynObjs

\* raw values currently held by the shared instances
SharedRaw(h) ==
    [n \in SharedNames |-> h[SharedId[n]]]

Live(rg, ch) ==
    SharedObjs \cup {rg[r] : r \in Regs} \cup {ch[k] : k \in DOMAIN ch}

\* a fresh instance has an identity no live reference holds
Fresh ==
    LET free == DynObjs \ Live(reg, cache)
    IN  CHOOSE o \in free : \A p \in free : o <= p

\* instances no reference reaches are forgotten
Collect(h, rg, ch) ==
    LET live == Live(rg, ch)
    IN  [o \in Objs |-> IF o \in live THEN h[o] ELSE 0]

\* the client's vectors v and w, the position of its component, and its
\* matrices m and n
VecNames ==
    {"v", "w", "position"}

MatNames ==
    {"m", "n"}

\* a variable that holds no vector or matrix yet
NoVec ==
    [refs |-> <<>>, copyOf |-> ""]

NoCall ==
    [op |-> "none", recv |-> "", arg |-> "", a |-> 0, b |-> 0, c |-> 0, ref1 |-> 0, ref2 |-> 0, ref3 |-> 0,
     a1 |-> 0, b1 |-> 0, c1 |-> 0,
     err |-> "", raw |-> 0, src |-> "none", write |-> FALSE, ref |-> 0,
     iters |-> 0, brk |-> FALSE,
     wide |-> FALSE, wa |-> WideOf(0), wraw |-> WideOf(0),
     str |-> <<>>, nan |-> FALSE, props |-> <<>>]

Init ==
    /\ heap = [o \in Objs |->
                 IF o \in SharedObjs
                 THEN StartupRaw[CHOOSE n \in SharedNames : SharedId[n] = o]
                 ELSE 0]
    /\ reg = [r \in Regs |-> 0]
    /\ cache = [k \in {} |-> 0]
    /\ calls = 0
    /\ last = NoCall
    /\ vec = [n \in VecNames \cup MatNames |-> NoVec]

(***************************************************************************)
(* One API call on Fixed instances.  o1 is the receiver (or first static   *)
(* argument), o2 and o3 the arguments; the client keeps the returned       *)
(* reference in y.                                                         *)
(***************************************************************************)
Apply(K, op, a, b, c) ==
    CASE op = "add"             -> add(a, b)
      [] op = "subtract"        -> subtract(a, b)
      [] op = "multiply"        -> multiply(a, b)
      [] op = "divide"          -> divide(a, b)
      [] op = "addInPlace"      -> addInPlace(a, b)
      [] op = "subtractInPlace" -> subtractInPlace(a, b)
      [] op = "multiplyInPlace" -> multiplyInPlace(a, b)
      [] op = "divideInPlace"   -> divideInPlace(a, b)
      [] op = "abs"             -> abs(a)
      [] op = "negate"          -> negate(a)
      [] op = "sqrt"            -> sqrt(K, a)
      [] op = "floor"           -> floor(a)
      [] op = "ceil"            -> ceil(a)
      [] op = "round"           -> round(a)
      [] op = "min"             -> min(a, b)
      [] op = "max"             -> max(a, b)
      [] op = "clamp"           -> clamp(a, b, c)
      [] op = "mod"             -> mod(K, a, b)
      [] op = "sin"             -> sin(K, a)
      [] op = "cos"             -> cos(K, a)
      [] op = "asin"            -> asin(K, a)
      [] op = "acos"            -> acos(K, a)

\* the instance an outcome returns
ResultRef(out, o1, o2, o3) ==
    CASE out.err # ""     -> 0
      [] out.src = "new"  -> Fresh
      [] out.src = "op1"  -> o1
      [] out.src = "op2"  -> o2
      [] out.src = "op3"  -> o3
      [] OTHER            -> SharedId[out.src]

Operands ==
    {reg[r] : r \in {q \in Regs : reg[q] # 0}}

\* the effect of a call with outcome out on the heap and on the client
Effect(out, op, o1, o2, o3) ==
    LET ref  == ResultRef(out, o1, o2, o3)
        h1   == IF out.err # "" THEN heap
                ELSE IF out.write THEN [heap EXCEPT ![o1] = out.raw]
                ELSE IF out.src = "new" THEN [heap EXCEPT ![ref] = out.raw]
                ELSE heap
        rg1  == IF out.err # "" THEN reg ELSE [reg EXCEPT !["y"] = ref]
    IN  /\ out.err # OutOfModel
        /\ reg' = rg1
        /\ heap' = Collect(h1, rg1, cache)
        /\ cache' = cache
        /\ vec' = vec
        /\ calls' = calls + 1
        /\ last' = [NoCall EXCEPT
                      !.op = op, !.a = heap[o1], !.b = heap[o2], !.c = heap[o3],
                      !.ref1 = o1, !.ref2 = o2, !.ref3 = o3,
                      !.a1 = h1[o1], !.b1 = h1[o2], !.c1 = h1[o3],
                      !.err = out.err, !.raw = out.raw, !.src = out.src,
                      !.write = out.write, !.ref = ref]

Call(op, o1, o2, o3) ==
    Effect(Apply(SharedRaw(heap), op, heap[o1], heap[o2], heap[o3]),
           op, o1, o2, o3)

\* x = Fixed.fromRaw(v)
New ==
    \E v \in InputRaws :
        LET rg1 == [reg EXCEPT !["x"] = Fresh]
        IN  /\ calls < MaxCalls
            /\ reg' = rg1
            /\ heap' = Collect([heap EXCEPT ![Fresh] = v], rg1, cache)
            /\ cache' = cache
            /\ vec' = vec
            /\ calls' = calls + 1
            /\ last' = [NoCall EXCEPT !.op = "fromRaw", !.a = v, !.raw = v,
                                      !.src = "new", !.ref = Fresh]

\* Fixed._cache.set(rawValue, fixed)
cacheSet(ch, rawValue, fixed) ==
    [k \in DOMAIN ch \cup {rawValue} |-> IF k = rawValue THEN fixed ELSE ch[k]]

\* variant of the lookup that lets the cache grow by one more entry before
\* it is cleared
cachedClearingLate(ch, rawValue, fresh) ==
    IF rawValue \in DOMAIN ch
    THEN [hit |-> TRUE, ref |-> ch[rawValue], cache |-> ch]
    ELSE [hit |-> FALSE, ref |-> fresh,
          cache |-> cacheSet(IF Cardinality(DOMAIN ch) > MAX_CACHE_SIZE
                             THEN [k \in {} |-> 0] ELSE ch,
                             rawValue, fresh)]

\* variant of the lookup that returns a new instance on a hit
cachedCopying(ch, rawValue, fresh) ==
    IF rawValue \in DOMAIN ch
    THEN [hit |-> TRUE, ref |-> fresh, cache |-> ch]
    ELSE [hit |-> FALSE, ref |-> fresh,
          cache |-> cacheSet(IF Cardinality(DOMAIN ch) >= MAX_CACHE_SIZE
                             THEN [k \in {} |-> 0] ELSE ch,
                             rawValue, fresh)]

\* Fixed.cached for the raw value rawValue and the cache ch: the instance
\* returned and the cache afterwards; fresh is the instance created on a
\* miss
cached(ch, rawValue, fresh) ==
    IF rawValue \in DOMAIN ch
    THEN [hit |-> TRUE, ref |-> ch[rawValue], cache |-> ch]
    ELSE [hit |-> FALSE, ref |-> fresh,
          cache |-> cacheSet(IF Cardinality(DOMAIN ch) >= MAX_CACHE_SIZE
                             THEN [k \in {} |-> 0] ELSE ch,
                             rawValue, fresh)]

\* the effect of y = Fixed.cached(...) with the outcome out
CachedEffect(out, v, rawValue) ==
    LET h1  == IF out.hit THEN heap ELSE [heap EXCEPT ![out.ref] = rawValue]
        rg1 == [reg EXCEPT !["y"] = out.ref]
    IN  /\ calls < MaxCalls
        /\ reg' = rg1
        /\ cache' = out.cache
        /\ heap' = Collect(h1, rg1, out.cache)
        /\ vec' = vec
        /\ calls' = calls + 1
        /\ last' = [NoCall EXCEPT !.op = "cached", !.a = v, !.raw = h1[out.ref],
                                  !.src = IF out.hit THEN "cache" ELSE "new",
                                  !.ref = out.ref]

\* y = Fixed.cached(v / SCALE)
Cached ==
    \E v \in InputRaws :
        CachedEffect(cached(cache, FixedOfNumber(toNumber(v)).raw, Fresh),
                     v, FixedOfNumber(toNumber(v)).raw)

\* y = o1.op()
Unary(op) ==
    \E o1 \in Operands : Call(op, o1, o1, o1)

\* y = o1.op(o2)
Binary(op) ==
    \E o1 \in Operands, o2 \in Operands : Call(op, o1, o2, o2)

Add ==
    /\ calls < MaxCalls
    /\ Binary("add")

Subtract ==
    /\ calls < MaxCalls
    /\ Binary("subtract")

Multiply ==
    /\ calls < MaxCalls
    /\ Binary("multiply")

Divide ==
    /\ calls < MaxCalls
    /\ Binary("divide")

AddInPlace ==
    /\ calls < MaxCalls
    /\ Binary("addInPlace")

SubtractInPlace ==
    /\ calls < MaxCalls
    /\ Binary("subtractInPlace")

MultiplyInPlace ==
    /\ calls < MaxCalls
    /\ Binary("multiplyInPlace")

DivideInPlace ==
    /\ calls < MaxCalls
    /\ Binary("divideInPlace")

AbsOp ==
    /\ calls < MaxCalls
    /\ Unary("abs")

Negate ==
    /\ calls < MaxCalls
    /\ Unary("negate")

Sqrt ==
    /\ calls < MaxCalls
    /\ Unary("sqrt")

Min ==
    /\ calls < MaxCalls
    /\ Binary("min")

Max ==
    /\ calls < MaxCalls
    /\ Binary("max")

Mod ==
    /\ calls < MaxCalls
    /\ Binary("mod")

Clamp ==
    /\ calls < MaxCalls
    /\ \E o1 \in Operands, o2 \in Operands, o3 \in Operands :
           Call("clamp", o1, o2, o3)

Next ==
    \/ New \/ Cached
    \/ Add \/ Subtract \/ Multiply \/ Divide
    \/ AddInPlace \/ SubtractInPlace \/ MultiplyInPlace \/ DivideInPlace
    \/ AbsOp \/ Negate \/ Sqrt
    \/ Min \/ Max \/ Clamp \/ Mod

Spec == Init /\ [][Next]_vars

(***************************************************************************)
(* Claims about object identity and shared state (specification Spec)      *)
(***************************************************************************)
NonInPlaceOps ==
    {"add", "subtract", "multiply", "divide", "abs", "negate", "sqrt", "mod",
     "min", "max", "clamp"}

InPlaceOps ==
    {"addInPlace", "subtractInPlace", "multiplyInPlace", "divideInPlace"}

\* the value-returning operation an in-place operation corresponds to
ValueOpOf(op) ==
    CASE op = "addInPlace"      -> "add"
      [] op = "subtractInPlace" -> "subtract"
      [] op = "multiplyInPlace" -> "multiply"
      [] op = "divideInPlace"   -> "divide"

\* operand raw values at which an operation's result is observed
ProbeRaws ==
    {0, SCALE, 2 * SCALE, -7 * SCALE}

\* what the client observes of an outcome
Observed(o) ==
    <<o.err, IF o.err = "" THEN o.raw ELSE 0>>

\* C1: in every reachable state, an operation applied to operands with
\* given raw values returns what it returns for those raw values in a
\* freshly started program: the result does not depend on earlier calls.
C1_ResultIndependentOfHistory ==
    \A op \in NonInPlaceOps \cup InPlaceOps : \A a \in ProbeRaws, b \in ProbeRaws :
        Observed(Apply(SharedRaw(heap), op, a, b, b))
            = Observed(Apply(StartupRaw, op, a, b, b))

\* the constants the data model names
NamedConstants ==
    {"ZERO", "ONE", "TWO", "HALF", "PI", "E", "PI_2", "PI_4", "TWO_PI",
     "DEG_TO_RAD", "RAD_TO_DEG"}

\* C2: after any sequence of API calls the shared constants hold the raw
\* values they had at startup.
C2_ConstantsKeepStartupValues ==
    \A n \in NamedConstants : heap[SharedId[n]] = StartupRaw[n]

\* C3: a non-in-place operation that returns does so with a newly created
\* instance (not the receiver, an argument or a shared constant) and leaves
\* the raw values of the receiver and of the arguments unchanged.
C3_ValueOpsReturnNewInstance ==
    (last.op \in NonInPlaceOps /\ last.err = "") =>
        /\ last.src = "new"
        /\ last.ref \notin SharedObjs \cup {last.ref1, last.ref2, last.ref3}
        /\ last.a1 = last.a /\ last.b1 = last.b /\ last.c1 = last.c

\* C4: an in-place operation that returns (for division: divisor raw # 0)
\* returns the receiver itself and leaves in it the raw value the
\* corresponding value-returning operation returns for the same operand
\* values, also when the argument is the receiver; an argument that is a
\* different instance keeps its raw value.
C4_InPlaceMatchesValueOp ==
    (last.op \in InPlaceOps /\ (last.op = "divideInPlace" => last.b # 0)) =>
        LET v == Apply(StartupRaw, ValueOpOf(last.op), last.a, last.b, last.b)
        IN  /\ last.err = v.err
            /\ last.err = "" =>
                  /\ last.ref = last.ref1
                  /\ reg["y"] = last.ref1
                  /\ heap[last.ref1] = v.raw
                  /\ last.a1 = v.raw
                  /\ last.ref2 # last.ref1 => last.b1 = last.b

\* an in-place multiplication of an instance by itself changed its value
C4_Witness ==
    /\ last.op = "multiplyInPlace" /\ last.err = ""
    /\ last.ref2 = last.ref1
    /\ last.a = -7 * SCALE /\ heap[last.ref1] = 49 * SCALE

(***************************************************************************)
(* Specification SpecCalc: a freshly started program makes one call on     *)
(* operands it has just created from raw values (Fixed.fromRaw).  The      *)
(* operands are drawn from bounded sets chosen to contain the rounding     *)
(* ties, both signs, zero and the values the tests use.                    *)
(***************************************************************************)
\* raw values -CalcSmall .. CalcSmall are among the operands
CalcSmall ==
    3

SmallRaws ==
    (-CalcSmall) .. CalcSmall

\* raw values around the rounding ties
TieRaws ==
    {s * v : s \in {-1, 1},
             v \in {499999, 500000, 500001, SCALE, 1500000, 2500000}}

MulLeftRaws ==
    SmallRaws \cup {-201, 201}

MulRightRaws ==
    SmallRaws \cup TieRaws \cup {3141593, -2718282}

DivRaws ==
    SmallRaws \cup TieRaws \cup {3 * SCALE, -7 * SCALE, 6 * SCALE}

ModLeftRaws ==
    SmallRaws \cup {7 * SCALE, -7 * SCALE, 10 * SCALE, 15 * SCALE, 5500000,
                    3700000, 2999999, 8999999, -2999999}

ModRightRaws ==
    SmallRaws \cup {3 * SCALE, -3 * SCALE, 4 * SCALE, 5 * SCALE, 2 * SCALE,
                    1200000}

RoundRaws ==
    SmallRaws \cup TieRaws \cup
    {s * v : s \in {-1, 1}, v \in {2300000, 2400000, 2600000, 2700000,
                                   3200000, 3700000, 5 * SCALE, 999999}}

\* raw values 0 .. SqrtSmall are among the arguments of sqrt
SqrtSmall ==
    30

SqrtRaws ==
    ((-CalcSmall) .. SqrtSmall)
        \cup {v * SCALE : v \in {-1, 2, 3, 4, 9, 10, 16, 100, 1000}}
        \cup {250000, 500000, 999999, SCALE, SCALE + 1, 1500000, 2250000,
              123456789, MaxMag - 1, MaxMag}

\* raw values of new Fixed(1e9), new Fixed(8e9) and new Fixed(4e10)
SqrtWideRaws ==
    {WideTimes(WideOf(v * SCALE), 1000 * SCALE) : v \in {1, 8, 40}}

\* the arguments of asin and acos include k / AsinGrid for k = -AsinGrid ..
\* AsinGrid
AsinGrid ==
    20

AsinRaws ==
    {k * (SCALE \div AsinGrid) : k \in (-AsinGrid) .. AsinGrid}
        \cup {s * v : s \in {-1, 1},
                      v \in {1, 2, 500000, 707107, 990000, 999999, SCALE,
                             SCALE + 1, 1500000, 2 * SCALE, 7 * SCALE}}

\* the arguments of tan include the raw values within TanNear of the two
\* angles next to PI/2 at which |cos| passes 0.01
TanNear ==
    4

TanRaws ==
    {s * (e + d) : s \in {-1, 1}, e \in {1560798, 1580795},
                   d \in (-TanNear) .. TanNear}
        \cup {s * v : s \in {-1, 1},
                      v \in {0, 1, 500000, StartupRaw.PI_4, SCALE,
                             StartupRaw.PI_2, 2 * SCALE, StartupRaw.PI,
                             4712389, StartupRaw.TWO_PI, 7 * SCALE}}

Atan2Raws ==
    {s * v : s \in {-1, 1}, v \in {0, 1, 500000, SCALE, 3 * SCALE, 30 * SCALE}}

\* raw values of new Fixed(0), new Fixed(Math.PI / 6), new Fixed(Math.PI / 4)
\* and new Fixed(Math.PI / 3)
ThetaRaws ==
    {0, 523599, 785398, 1047198}

\* angles that normalise to a key of SIN_TABLE (after TurnsMax turns at
\* most), their neighbours, and other angles
TurnsMax ==
    2

\* angles next to PI_2 and -PI_2, and the angles a quarter turn before them
CrestRaws ==
    {1569774, 1569916, 1571677, 1571819, -1569774, -1571819, 1570000,
     -1022, 881, -3140570}

SinRaws ==
    CrestRaws \cup
    {k + d + n * StartupRaw.TWO_PI :
         k \in {0, StartupRaw.PI_4, StartupRaw.PI_2, StartupRaw.PI},
         d \in {-1, 0, 1}, n \in (-TurnsMax) .. TurnsMax}
        \cup {s * v : s \in {-1, 1}, v \in {500000, SCALE, 523599, 1047198,
                                            StartupRaw.PI, 4712389}}

\* integer bases and exponents up to PowSmall in magnitude are among the
\* arguments of pow
PowSmall ==
    4

PowBases ==
    {v * SCALE : v \in (-PowSmall) .. PowSmall}
        \cup {10 * SCALE, 500000, 1500000, -1500000, 1, -1, 2718282}

PowExps ==
    {v * SCALE : v \in (-PowSmall) .. PowSmall}
        \cup {10 * SCALE, 500000, -500000, 1500000, 2500000, 1, 999999}

LnRaws ==
    {-SCALE, -1, 0, 1, 2, 500000, 999999, SCALE, SCALE + 1, 2 * SCALE,
     2718282, 10 * SCALE, 100 * SCALE}

\* strings the client constructs from
StringInputs ==
    { <<"2", ".", "7", "1", "8", "2", "8">>, <<"-", "0", ".", "5">>,
      <<"4", "2">>, <<".", "5">>, <<" ", "7">>, <<"+", "3", ".">>,
      <<"a", "b", "c">>, <<>>, <<"1", "2", "a", "b", "c">>,
      <<"1", ".", "5", ".", "3">>, <<".">>, <<"-">>, <<"1", ",", "5">> }

\* angles up to TurnsFar turns away from (-PI, PI], and the angles of sin
TurnsFar ==
    160

AngleRaws ==
    SinRaws \cup {s * (v + n * StartupRaw.TWO_PI) :
                      s \in {-1, 1}, v \in {0, 1, SCALE, 3141592, 3141594},
                      n \in {1, 3, 21, TurnsFar}}

AtanRaws ==
    {s * v : s \in {-1, 1},
             v \in {0, 1, 2, 57735, 500000, 999999, SCALE, 1000001, 1732051,
                    3 * SCALE, 30 * SCALE, 32 * SCALE}}

\* y = fromRaw(a).op(fromRaw(b)) in a fresh program
CalcEffect(out, op, a, b, c) ==
    /\ out.err # OutOfModel
    /\ calls' = 1
    /\ last' = [NoCall EXCEPT
                  !.op = op, !.a = a, !.b = b, !.c = c,
                  !.a1 = IF out.write THEN out.raw ELSE a,
                  !.b1 = b, !.c1 = c,
                  !.err = out.err, !.raw = out.raw, !.src = out.src,
                  !.write = out.write,
                  !.iters = IF op = "sqrt" THEN out.iters ELSE 0,
                  !.brk = IF op = "sqrt" THEN out.brk ELSE FALSE]
    /\ UNCHANGED <<heap, reg, cache, vec>>

CalcCall(op, a, b, c) ==
    CalcEffect(Apply(SharedRaw(heap), op, a, b, c), op, a, b, c)

CalcMultiply ==
    /\ calls = 0
    /\ \E a \in MulLeftRaws, b \in MulRightRaws : CalcCall("multiply", a, b, b)

CalcDivide ==
    /\ calls = 0
    /\ \E a \in DivRaws, b \in DivRaws : CalcCall("divide", a, b, b)

CalcDivideInPlace ==
    /\ calls = 0
    /\ \E a \in DivRaws, b \in DivRaws : CalcCall("divideInPlace", a, b, b)

CalcMod ==
    /\ calls = 0
    /\ \E a \in ModLeftRaws, b \in ModRightRaws : CalcCall("mod", a, b, b)

CalcFloor ==
    /\ calls = 0
    /\ \E a \in RoundRaws : CalcCall("floor", a, a, a)

CalcCeil ==
    /\ calls = 0
    /\ \E a \in RoundRaws : CalcCall("ceil", a, a, a)

CalcRound ==
    /\ calls = 0
    /\ \E a \in RoundRaws : CalcCall("round", a, a, a)

CalcSqrt ==
    /\ calls = 0
    /\ \E a \in SqrtRaws : CalcCall("sqrt", a, a, a)

\* y = a.sqrt() for a raw value a beyond MaxMag
CalcWideEffect(out, a) ==
    /\ calls' = 1
    /\ last' = [NoCall EXCEPT
                  !.op = "sqrt", !.wide = TRUE, !.wa = a, !.wraw = out.raw,
                  !.err = out.err, !.src = "new",
                  !.iters = out.iters, !.brk = out.brk]
    /\ UNCHANGED <<heap, reg, cache, vec>>

CalcSqrtWide ==
    /\ calls = 0
    /\ \E a \in SqrtWideRaws : CalcWideEffect(WideSqrt(SharedRaw(heap), a), a)

CalcAsin ==
    /\ calls = 0
    /\ \E a \in AsinRaws : CalcCall("asin", a, a, a)

CalcAcos ==
    /\ calls = 0
    /\ \E a \in AsinRaws : CalcCall("acos", a, a, a)

CalcTan ==
    /\ calls = 0
    /\ \E a \in TanRaws : CalcEffect(tan(SharedRaw(heap), a), "tan", a, a, a)

\* Fixed.atan2(y, x)
CalcAtan2 ==
    /\ calls = 0
    /\ \E y \in Atan2Raws, x \in Atan2Raws :
           CalcEffect(atan2(SharedRaw(heap), y, x), "atan2", y, x, x)

\* y = Fixed.sin(theta).asin()
CalcAsinSin ==
    /\ calls = 0
    /\ \E a \in ThetaRaws :
           CalcEffect(Then(sin(SharedRaw(heap), a),
                           LAMBDA s : asin(SharedRaw(heap), s)),
                      "asin(sin)", a, a, a)

CalcSin ==
    /\ calls = 0
    /\ \E a \in SinRaws : CalcEffect(sin(SharedRaw(heap), a), "sin", a, a, a)

CalcCos ==
    /\ calls = 0
    /\ \E a \in SinRaws : CalcEffect(cos(SharedRaw(heap), a), "cos", a, a, a)

CalcPow ==
    /\ calls = 0
    /\ \E a \in PowBases, b \in PowExps :
           CalcEffect(pow(SharedRaw(heap), a, b), "pow", a, b, b)

CalcLn ==
    /\ calls = 0
    /\ \E a \in LnRaws : CalcEffect(ln(SharedRaw(heap), a), "ln", a, a, a)

\* y = new Fixed(s) for a string s
CalcStringEffect(out, s) ==
    /\ out.err # OutOfModel
    /\ calls' = 1
    /\ last' = [NoCall EXCEPT
                  !.op = "fromString", !.str = s, !.err = out.err,
                  !.raw = out.raw, !.nan = out.nan, !.src = out.src]
    /\ UNCHANGED <<heap, reg, cache, vec>>

CalcFromString ==
    /\ calls = 0
    /\ \E s \in StringInputs : CalcStringEffect(FixedOfString(s), s)

\* n = Fixed.normalizeAngle(fromRaw(a)), as the first step of Fixed.sin
NormalizeEffect(out, rounds, a) ==
    /\ out.err # OutOfModel
    /\ calls' = 1
    /\ last' = [NoCall EXCEPT
                  !.op = "normalizeAngle", !.a = a, !.a1 = a, !.err = out.err,
                  !.raw = out.raw, !.src = out.src, !.iters = rounds]
    /\ UNCHANGED <<heap, reg, cache, vec>>

CalcNormalizeAngle ==
    /\ calls = 0
    /\ \E a \in AngleRaws :
           NormalizeEffect(normalizeAngle(SharedRaw(heap), a),
                           normalizeRounds(SharedRaw(heap), a), a)

\* a.negate().multiply(b), a.multiply(b.negate()) and a.negate().divide(b)
negated(op, a, b) ==
    CASE op = "negate.multiply"  -> Then(negate(a), LAMBDA n : multiply(n, b))
      [] op = "multiply(negate)" -> Then(negate(b), LAMBDA n : multiply(a, n))
      [] op = "negate.divide"    -> Then(negate(a), LAMBDA n : divide(n, b))

CalcNegated ==
    /\ calls = 0
    /\ \E op \in {"negate.multiply", "multiply(negate)", "negate.divide"},
          a \in MulLeftRaws \cup DivRaws, b \in MulRightRaws \cup DivRaws :
           CalcEffect(negated(op, a, b), op, a, b, b)

CalcAtan ==
    /\ calls = 0
    /\ \E a \in AtanRaws : CalcEffect(atan(SharedRaw(heap), a), "atan", a, a, a)

NextCalc ==
    \/ CalcMultiply \/ CalcDivide \/ CalcDivideInPlace \/ CalcMod
    \/ CalcFloor \/ CalcCeil \/ CalcRound
    \/ CalcSqrt \/ CalcSqrtWide \/ CalcAsin \/ CalcAcos
    \/ CalcTan \/ CalcAtan2 \/ CalcAsinSin \/ CalcSin \/ CalcCos
    \/ CalcPow \/ CalcLn \/ CalcFromString \/ CalcNormalizeAngle
    \/ CalcNegated \/ CalcAtan

SpecCalc == Init /\ [][NextCalc]_vars

(***************************************************************************)
(* Claims about the arithmetic (specification SpecCalc)                    *)
(***************************************************************************)
\* r is p / SCALE rounded to the nearest integer, a tie toward +Infinity
NearestTieUp(p, r) ==
    -SCALE <= 2 * (p - r * SCALE) /\ 2 * (p - r * SCALE) < SCALE

\* r is p / SCALE rounded to the nearest integer, a tie away from zero
NearestTieAway(p, r) ==
    IF p >= 0 THEN NearestTieUp(p, r)
    ELSE -SCALE < 2 * (p - r * SCALE) /\ 2 * (p - r * SCALE) <= SCALE

C6_ZeroDivisorErrors ==
    /\ last.op \in {"divide", "divideInPlace"} =>
          /\ (last.b = 0) <=> (last.err = "Division by zero")
          /\ (last.b # 0) => last.err = ""
    /\ last.op = "mod" =>
          /\ (last.b = 0) <=> (last.err = "Modulo by zero")
          /\ (last.b # 0) => last.err = ""
    /\ (last.op = "divideInPlace" /\ last.err # "") => last.a1 = last.a

\* a divideInPlace by zero threw and left a non-zero receiver as it was
C6_Witness ==
    /\ last.op = "divideInPlace" /\ last.b = 0 /\ last.a = -7 * SCALE
    /\ last.err = "Division by zero" /\ last.a1 = -7 * SCALE

\* C7: for b.raw # 0, r = a.mod(b) is zero or has the sign of b, and
\* |r.raw| < |b.raw|.
C7_ModHasSignOfDivisor ==
    (last.op = "mod" /\ last.b # 0) =>
        /\ last.err = ""
        /\ last.raw = 0 \/ ((last.raw > 0) <=> (last.b > 0))
        /\ Abs(last.raw) < Abs(last.b)

\* C8 (as stated): floor, ceil and round return multiples of SCALE: the
\* greatest one <= x.raw, the least one >= x.raw, and the nearest one with
\* ties away from zero.
C8_RoundTiesAwayFromZero ==
    /\ last.op \in {"floor", "ceil", "round"} =>
          last.err = "" /\ last.raw % SCALE = 0
    /\ last.op = "floor" => last.raw <= last.a /\ last.a < last.raw + SCALE
    /\ last.op = "ceil" => last.raw - SCALE < last.a /\ last.a <= last.raw
    /\ last.op = "round" => NearestTieAway(last.a, last.raw \div SCALE)

\* C8 (amended): floor, ceil and round return multiples of SCALE: the
\* greatest one <= x.raw, the least one >= x.raw, and the nearest one with
\* ties (fractional part exactly 0.5) toward +Infinity, so round(2.5) = 3
\* and round(-2.5) = -2.
C8_RoundTiesUp ==
    /\ last.op \in {"floor", "ceil", "round"} =>
          last.err = "" /\ last.raw % SCALE = 0
    /\ last.op = "floor" => last.raw <= last.a /\ last.a < last.raw + SCALE
    /\ last.op = "ceil" => last.raw - SCALE < last.a /\ last.a <= last.raw
    /\ last.op = "round" => NearestTieUp(last.a, last.raw \div SCALE)

\* round(-2.5) returned -2
C8_Witness ==
    last.op = "round" /\ last.a = -2500000 /\ last.raw = -2 * SCALE

\* C9: sqrt throws 'Square root of negative number' exactly when its raw
\* value is < 0, asin and acos throw their domain error exactly when
\* |raw| > SCALE, and inside the domain they return without any error;
\* sqrt(0) = 0, sqrt(1) = 1, asin(0) = 0, asin(1) = PI_2 and
\* asin(-1) = -PI_2 exactly.
C9_DomainErrorsExactly ==
    /\ (last.op = "sqrt" /\ ~last.wide) =>
          /\ (last.a < 0) <=> (last.err = "Square root of negative number")
          /\ (last.a >= 0) => last.err = ""
          /\ (last.a = 0) => last.raw = 0
          /\ (last.a = SCALE) => last.raw = SCALE
    /\ last.op = "asin" =>
          /\ (Abs(last.a) > SCALE)
                <=> (last.err = "Arcsine domain error: input must be in [-1, 1]")
          /\ (Abs(last.a) <= SCALE) => last.err = ""
          /\ (last.a = 0) => last.raw = 0
          /\ (last.a = SCALE) => last.raw = StartupRaw.PI_2
          /\ (last.a = -SCALE) => last.raw = -StartupRaw.PI_2
    /\ last.op = "acos" =>
          /\ (Abs(last.a) > SCALE)
                <=> (last.err = "Arccosine domain error: input must be in [-1, 1]")
          /\ (Abs(last.a) <= SCALE) => last.err = ""

\* asin(0.5) went through the Newton iteration and returned 0.523599
C9_Witness ==
    last.op = "asin" /\ last.a = 500000 /\ last.err = "" /\ last.raw = 523599

\* r is within d raw units of the square root of a (of raw value
\* sqrt(a * SCALE)): (r - d)^2 <= a * SCALE <= (r + d)^2, each square
\* compared through the quotient of a * SCALE by its root
SqrtWithin(a, r, d) ==
    LET lo == MulDivQR(a, SCALE, r - d)
        hi == MulDivQR(a, SCALE, r + d)
    IN  /\ r <= d \/ lo.q < 0 \/ r - d <= lo.q
        /\ hi.q >= 0
        /\ hi.q < r + d \/ (hi.q = r + d /\ hi.r = 0)

\* the same for raw values beyond MaxMag
WideSqrtWithin(a, r, d) ==
    LET lo == WideMulDivQR(a, SCALE, WideSub(r, WideOf(d)))
        hi == WideMulDivQR(a, SCALE, WideAdd(r, WideOf(d)))
    IN  /\ WideLeq(WideSub(r, WideOf(d)), lo.q)
        /\ \/ ~WideLeq(WideAdd(r, WideOf(d)), hi.q)
           \/ (hi.q = WideAdd(r, WideOf(d)) /\ hi.r = WideOf(0))

\* C10: for a.raw > 0, a.sqrt() returns a non-negative value within 10 raw
\* units of the exact square root, and the loop has ended by its test for
\* convergence (last step <= 1 raw unit), not by the cap of 20 rounds.
C10_SqrtConvergedWithinTolerance ==
    /\ (last.op = "sqrt" /\ ~last.wide /\ last.a > 0) =>
          /\ last.err = "" /\ last.raw >= 0
          /\ SqrtWithin(last.a, last.raw, 10)
          /\ last.iters > 0 => last.brk
    /\ (last.op = "sqrt" /\ last.wide) =>
          /\ last.err = ""
          /\ WideSqrtWithin(last.wa, last.wraw, 10)
          /\ last.brk


(***************************************************************************)
(* Claims about the trigonometric and power functions (specification       *)
(* SpecCalc)                                                               *)
(***************************************************************************)
\* the outcome tan is to have, given the outcomes of cos and sin
TanAsClaimed(c, s) ==
    /\ c.err = "" /\ s.err = ""
    /\ (Abs(c.raw) < 10000) <=> (last.err = "Tangent undefined")
    /\ (Abs(c.raw) >= 10000) =>
          last.err = "" /\ last.raw = divide(s.raw, c.raw).raw

\* C11: tan(x) throws 'Tangent undefined' exactly when |cos(x)| is below
\* 0.01 (raw 10000), in particular at x = PI_2, and otherwise returns
\* sin(x).divide(cos(x)) without any error.
C11_TanUndefinedBelowThreshold ==
    (last.op = "tan") =>
        /\ TanAsClaimed(cos(SharedRaw(heap), last.a), sin(SharedRaw(heap), last.a))
        /\ (last.a = StartupRaw.PI_2) => (last.err = "Tangent undefined")

\* tan threw at an angle whose cosine is 0.009999
C11_Witness ==
    last.op = "tan" /\ last.a = 1560798 /\ last.err = "Tangent undefined"


\* the outcome atan2(y, x) is to have, given the outcome t of atan for the
\* quotient y / x
Atan2AsClaimed(y, x, t) ==
    /\ (x = 0 /\ y = 0) <=> (last.err = "atan2 undefined for (0, 0)")
    /\ (x # 0 \/ y # 0) => last.err = ""
    /\ (x > 0) => t.err = "" /\ last.raw = t.raw
    /\ (x < 0 /\ y >= 0) => t.err = "" /\ last.raw = t.raw + StartupRaw.PI
    /\ (x < 0 /\ y < 0) => t.err = "" /\ last.raw = t.raw - StartupRaw.PI
    /\ (x = 0 /\ y > 0) => last.raw = StartupRaw.PI_2
    /\ (x = 0 /\ y < 0) => last.raw = -StartupRaw.PI_2

\* C12: atan2(y, x) throws 'atan2 undefined for (0, 0)' exactly when both
\* raw values are 0; otherwise it returns atan(y/x) for x > 0, atan(y/x) +
\* PI for x < 0 and y >= 0, atan(y/x) - PI for x < 0 and y < 0, exactly
\* PI_2 for x = 0 and y > 0, and exactly -PI_2 for x = 0 and y < 0.
C12_Atan2ByQuadrant ==
    (last.op = "atan2") =>
        Atan2AsClaimed(last.a, last.b,
                       IF last.b = 0 THEN Fail("Division by zero")
                       ELSE Then(divide(last.a, last.b),
                                 LAMBDA q : atan(SharedRaw(heap), q)))

\* atan2(0, -1) returned PI
C12_Witness ==
    /\ last.op = "atan2" /\ last.a = 0 /\ last.b = -SCALE
    /\ last.err = "" /\ last.raw = StartupRaw.PI


\* C13: for theta in {0, PI/6, PI/4, PI/3}, asin(sin(theta)) throws nothing
\* and differs from theta by at most 1e-3 (1000 raw units).
C13_AsinInvertsSin ==
    (last.op = "asin(sin)") =>
        last.err = "" /\ Abs(last.raw - last.a) <= 1000

\* asin(sin(PI/4)) went through the table of sin and the iteration of asin
C13_Witness ==
    /\ last.op = "asin(sin)" /\ last.a = 785398
    /\ last.err = "" /\ last.raw = 785400


\* the value sin is to return for the normalised angle n, if n is one of
\* the four landmark angles
SinAtLandmark(n) ==
    /\ n.err = ""
    /\ (n.raw = 0) => last.raw = 0
    /\ (n.raw = StartupRaw.PI_4) => last.raw = 707107
    /\ (n.raw = StartupRaw.PI_2) => last.raw = SCALE
    /\ (n.raw = StartupRaw.PI) => last.raw = 0

\* C14: sin returns exactly the table value (0, 0.707107, 1, 0) whenever
\* the normalised angle's raw value is that of 0, PI_4, PI_2 or PI; so
\* sin(0) = 0, sin(PI_2) = 1, sin(PI) = 0 and cos(0) = 1 exactly.
C14_SinTableIsExact ==
    /\ (last.op = "sin") =>
          /\ last.err = ""
          /\ SinAtLandmark(normalizeAngle(SharedRaw(heap), last.a))
          /\ (last.a = 0) => last.raw = 0
          /\ (last.a = StartupRaw.PI_2) => last.raw = SCALE
          /\ (last.a = StartupRaw.PI) => last.raw = 0
    /\ (last.op = "cos" /\ last.a = 0) => last.err = "" /\ last.raw = SCALE

\* sin of PI_2 plus one turn returned exactly 1
C14_Witness ==
    /\ last.op = "sin" /\ last.a = StartupRaw.PI_2 + StartupRaw.TWO_PI
    /\ last.err = "" /\ last.raw = SCALE


\* C15: for every base x, x.pow(e) has raw value SCALE when e.raw = 0, and
\* for e.raw = SCALE it has the raw value of x and is an instance other
\* than x.
C15_PowZeroAndOne ==
    /\ (last.op = "pow" /\ last.b = 0) => last.err = "" /\ last.raw = SCALE
    /\ (last.op = "pow" /\ last.b = SCALE) =>
          last.err = "" /\ last.raw = last.a /\ last.src = "new"

\* (-1.5).pow(1) returned a new instance with raw value -1500000
C15_Witness ==
    /\ last.op = "pow" /\ last.a = -1500000 /\ last.b = SCALE
    /\ last.raw = -1500000 /\ last.src = "new"

\* the outcome x.pow(-n) is to have, given the outcome p of x.pow(n)
PowReciprocal(p) ==
    IF p.err # "" THEN last.err = p.err
    ELSE IF p.raw = 0 THEN last.err = "Division by zero"
    ELSE last.err = "" /\ last.raw = divide(SCALE, p.raw).raw

\* C16: for an integer exponent n >= 2 and an integer base b, b.pow(n) is
\* exactly b^n; for a negative integer exponent -n, x.pow(-n) equals
\* ONE.divide(x.pow(n)); 2.pow(3) = 8 and 2.pow(-1) = 0.5.
C16_PowIntegerExponent ==
    /\ (last.op = "pow" /\ last.b >= 2 * SCALE /\ last.b % SCALE = 0
            /\ last.a % SCALE = 0) =>
          /\ last.err = ""
          /\ last.raw = ((last.a \div SCALE) ^ (last.b \div SCALE)) * SCALE
    /\ (last.op = "pow" /\ last.b < 0 /\ last.b % SCALE = 0) =>
          PowReciprocal(pow(SharedRaw(heap), last.a, -last.b))
    /\ (last.op = "pow" /\ last.a = 2 * SCALE /\ last.b = 3 * SCALE) =>
          last.raw = 8 * SCALE
    /\ (last.op = "pow" /\ last.a = 2 * SCALE /\ last.b = -SCALE) =>
          last.raw = 500000

\* (-3).pow(3) returned -27
C16_Witness ==
    /\ last.op = "pow" /\ last.a = -3 * SCALE /\ last.b = 3 * SCALE
    /\ last.err = "" /\ last.raw = -27 * SCALE

\* the outcome x.pow(e) is to have for a fractional e, given the outcome p
\* of x.ln().multiply(e).exp()
PowFractional(p) ==
    IF last.a <= 0
    THEN last.err = "Logarithm domain error: input must be positive"
    ELSE last.err = "" /\ p.err = "" /\ last.raw = p.raw

\* C17: ln(x) throws its domain error exactly when x.raw <= 0, and ln(1) =
\* 0; x.pow(e) with a fractional e throws the domain error whenever
\* x.raw <= 0, and for x.raw > 0 returns x.ln().multiply(e).exp() without
\* throwing.
C17_LnDomain ==
    /\ (last.op = "ln") =>
          /\ (last.a <= 0)
                <=> (last.err = "Logarithm domain error: input must be positive")
          /\ (last.a > 0) => last.err = ""
          /\ (last.a = SCALE) => last.raw = 0
    /\ (last.op = "pow" /\ last.b % SCALE # 0) =>
          PowFractional(Then(Then(ln(SharedRaw(heap), last.a),
                                  LAMBDA l : multiply(l, last.b)),
                             LAMBDA q : exp(SharedRaw(heap), q)))

\* 0.pow(0.5) threw the domain error of ln
C17_Witness ==
    /\ last.op = "pow" /\ last.a = 0 /\ last.b = 500000
    /\ last.err = "Logarithm domain error: input must be positive"


(***************************************************************************)
(* Fixed.cached in a long run (specification SpecCache).  The client calls *)
(* Fixed.cached(i) in a loop for i = 2, 3, ... (calls counts the rounds of *)
(* the loop) and, now and then, Fixed.cached with a value that rounds to   *)
(* 1.5; x keeps the instance its first such call returned, y the instance  *)
(* the last call returned.  No instance is written to, so a cached         *)
(* instance's raw value is its key and heap is left alone; an instance is  *)
(* numbered by the round and the kind of the call that created it.         *)
(***************************************************************************)
\* rounds of the client's loop
MaxFills ==
    1002

\* the client asks for 1.5 during its first ProbeEarly rounds, and again
\* from round MAX_CACHE_SIZE - 1 on
ProbeEarly ==
    1

\* 1.5 and 1.5000001 have the same rounded raw value
ProbeValues ==
    {[num |-> 3, den |-> 2], [num |-> 15000001, den |-> 10000000]}

\* the instance a call creates: kind 1 in the loop, kind 2 otherwise
LongRunFresh(kind) ==
    Cardinality(Objs) + 2 * calls + kind

LongRunEffect(out, rawValue, rounds, keep) ==
    /\ cache' = out.cache
    /\ reg' = [reg EXCEPT !["y"] = out.ref,
                          !["x"] = IF keep /\ reg["x"] = 0 THEN out.ref
                                   ELSE reg["x"]]
    /\ calls' = calls + rounds
    /\ last' = [NoCall EXCEPT !.op = "cached", !.a = rawValue, !.raw = rawValue,
                              !.src = IF out.hit THEN "cache" ELSE "new",
                              !.ref = out.ref]
    /\ UNCHANGED <<heap, vec>>

\* Fixed.cached(calls + 2), a round of the loop
CacheFill ==
    /\ calls < MaxFills
    /\ LongRunEffect(cached(cache, FixedOfInt(calls + 2), LongRunFresh(1)),
                     FixedOfInt(calls + 2), 1, FALSE)

\* y = Fixed.cached(v) for a v that rounds to 1.5
CacheProbe ==
    /\ calls <= ProbeEarly \/ calls >= MAX_CACHE_SIZE - 1
    /\ \E v \in ProbeValues :
           LongRunEffect(cached(cache, FixedOfNumber(v).raw, LongRunFresh(2)),
                         FixedOfNumber(v).raw, 0, TRUE)

NextCache ==
    \/ CacheFill \/ CacheProbe

SpecCache == Init /\ [][NextCache]_vars

(***************************************************************************)
(* Vectors, matrices and components (specification SpecVec).  A            *)
(* FixedVector2 holds references to two Fixed instances (x, y), a          *)
(* FixedMatrix2x2 to four (m00, m01, m10, m11); vec maps each variable of  *)
(* the client to the references of the object it holds, and copyOf names   *)
(* the variable whose object it was cloned from.                           *)
(***************************************************************************)
\* numbers the client constructs components from
VecRaws ==
    {SCALE, 2 * SCALE}

\* numbers the client passes as a scalar
ScalarRaws ==
    {0, 2 * SCALE}

\* number of API calls of a run
MaxVecCalls ==
    3

Built(n) ==
    vec[n].refs # <<>>

\* the instances the objects of vc refer to, and the shared ones
VecLive(vc) ==
    SharedObjs \cup UNION {{vc[n].refs[k] : k \in DOMAIN vc[n].refs} : n \in DOMAIN vc}

\* identities available to the instances of vectors and matrices
VecPool ==
    (Cardinality(SharedObjs) + 1) ..
        (Cardinality(SharedObjs) + 2 * Cardinality(VecNames)
             + 4 * Cardinality(MatNames) + 4)

\* the k-th new instance of a call that assigns the variable n (or none, "")
NewFixed(n, k) ==
    LET free == VecPool \ VecLive([q \in DOMAIN vec \ {n} |-> vec[q]])
    IN  CHOOSE o \in free : Cardinality({p \in free : p < o}) = k - 1

\* the raw values of the components of the object of n
Values(h, vc, n) ==
    [k \in DOMAIN vc[n].refs |-> h[vc[n].refs[k]]]

\* the variable n holds the references refs; no variable counts as a copy
\* of what n held before
Rebuilt(vc, n, refs, copyOf) ==
    [q \in DOMAIN vc |->
        IF q = n THEN [refs |-> refs, copyOf |-> copyOf]
        ELSE IF vc[q].copyOf = n THEN [vc[q] EXCEPT !.copyOf = ""]
        ELSE vc[q]]

\* the effect of a call that stores the references refs in the object of n,
\* h being the heap with the instances the call created
Build(op, n, arg, refs, copyOf, h) ==
    /\ vec' = Rebuilt(vec, n, refs, copyOf)
    /\ heap' = [o \in VecLive(Rebuilt(vec, n, refs, copyOf)) |-> h[o]]
    /\ calls' = calls + 1
    /\ last' = [NoCall EXCEPT !.op = op, !.recv = n, !.arg = arg]
    /\ UNCHANGED <<reg, cache>>

\* n = new FixedVector2(x, y) for numbers x and y
VecNew ==
    /\ calls < MaxVecCalls
    /\ \E n \in {"v", "w"}, x \in VecRaws, y \in VecRaws :
           Build("new FixedVector2", n, "",
                 <<NewFixed(n, 1), NewFixed(n, 2)>>, "",
                 (NewFixed(n, 1) :> FixedOfNumber(toNumber(x)).raw)
                     @@ (NewFixed(n, 2) :> FixedOfNumber(toNumber(y)).raw)
                     @@ heap)

\* the Fixed arguments of a constructor call: Fixed.ZERO, Fixed.ONE or the
\* one instance f = new Fixed(2) the call is given
FixedArg(n, a) ==
    IF a = "f" THEN NewFixed(n, 1) ELSE SharedId[a]

\* n = new FixedVector2(a, b) for Fixed instances a and b
VecNewFixed ==
    /\ calls < MaxVecCalls
    /\ \E n \in {"v", "w"}, a \in {"ZERO", "ONE", "f"}, b \in {"ZERO", "f"} :
           Build("new FixedVector2", n, "",
                 <<FixedArg(n, a), FixedArg(n, b)>>, "",
                 (NewFixed(n, 1) :> FixedOfInt(2)) @@ heap)

\* n = o.clone(): new FixedVector2(this.x, this.y)
VecClone ==
    /\ calls < MaxVecCalls
    /\ \E n \in {"v", "w"}, o \in {"v", "w"} :
           /\ n # o /\ Built(o)
           /\ Build("clone", n, o, vec[o].refs, o, heap)

\* n.setFrom(o)
VecSetFrom ==
    /\ calls < MaxVecCalls
    /\ \E n \in VecNames, o \in VecNames :
           /\ n # o /\ Built(n) /\ Built(o)
           /\ Build("setFrom", n, o, vec[o].refs, "", heap)

\* n.reset()
VecReset ==
    /\ calls < MaxVecCalls
    /\ \E n \in VecNames :
           /\ Built(n)
           /\ Build("reset", n, "", <<SharedId.ZERO, SharedId.ZERO>>, "", heap)

\* component.setPositionFromVector(o): this.position = vector.clone()
SetPositionFromVector ==
    /\ calls < MaxVecCalls
    /\ \E o \in {"v", "w"} :
           /\ Built(o)
           /\ Build("setPositionFromVector", "position", o, vec[o].refs, o, heap)

\* the Fixed operation an operation of a vector or matrix applies to each
\* component
FixedInPlace(op, a, b) ==
    CASE op = "addInPlace"            -> addInPlace(a, b)
      [] op = "subtractInPlace"       -> subtractInPlace(a, b)
      [] op = "multiplyInPlace"       -> multiplyInPlace(a, b)
      [] op = "multiplyScalarInPlace" -> multiplyInPlace(a, b)
      [] op = "divideInPlace"         -> divideInPlace(a, b)

RECURSIVE eachInPlace(_, _, _, _, _)

\* the k-th component has been assigned the outcome out
eachAssigned(op, h, recv, args, k, out) ==
    IF out.err # "" THEN [err |-> out.err, heap |-> h]
    ELSE eachInPlace(op, [h EXCEPT ![recv[k]] = out.raw], recv, args, k + 1)

\* this.c.opInPlace(arg.c) for the components c from the k-th on, in the
\* order of the source, on the heap h
eachInPlace(op, h, recv, args, k) ==
    IF k > Len(recv) THEN [err |-> "", heap |-> h]
    ELSE eachAssigned(op, h, recv, args, k,
                      FixedInPlace(op, h[recv[k]], h[args[k]]))

\* the effect of n.op(arg) with the outcome out; b is the raw value of a
\* scalar argument
InPlaceEffect(op, n, arg, b, out) ==
    /\ out.err # OutOfModel
    /\ vec' = vec
    /\ heap' = [o \in VecLive(vec) |-> out.heap[o]]
    /\ calls' = calls + 1
    /\ last' = [NoCall EXCEPT !.op = op, !.recv = n, !.arg = arg, !.b = b,
                              !.err = out.err]
    /\ UNCHANGED <<reg, cache>>

VecAddInPlace ==
    /\ calls < MaxVecCalls
    /\ \E n \in VecNames, o \in VecNames :
           /\ Built(n) /\ Built(o)
           /\ InPlaceEffect("addInPlace", n, o, 0,
                            eachInPlace("addInPlace", heap, vec[n].refs,
                                        vec[o].refs, 1))

VecSubtractInPlace ==
    /\ calls < MaxVecCalls
    /\ \E n \in VecNames, o \in VecNames :
           /\ Built(n) /\ Built(o)
           /\ InPlaceEffect("subtractInPlace", n, o, 0,
                            eachInPlace("subtractInPlace", heap, vec[n].refs,
                                        vec[o].refs, 1))

\* the scalars the client passes: a number s, which the operation turns
\* into new Fixed(s), or the first component of one of its objects
Scalars(names) ==
    {[ref |-> NewFixed("", 1), raw |-> FixedOfNumber(toNumber(s)).raw] :
         s \in ScalarRaws}
        \cup {[ref |-> vec[o].refs[1], raw |-> heap[vec[o].refs[1]]] :
                  o \in {q \in names : Built(q)}}

VecMultiplyInPlace ==
    /\ calls < MaxVecCalls
    /\ \E n \in VecNames, s \in Scalars(VecNames) :
           /\ Built(n)
           /\ InPlaceEffect("multiplyInPlace", n, "", s.raw,
                            eachInPlace("multiplyInPlace",
                                        (s.ref :> s.raw) @@ heap, vec[n].refs,
                                        <<s.ref, s.ref>>, 1))

\* if (scalarFixed.equals(Fixed.ZERO)) throw ...; then the components
vecDivideInPlace(K, h, recv, s) ==
    IF h[s] = K.ZERO THEN [err |-> "Division by zero vector", heap |-> h]
    ELSE eachInPlace("divideInPlace", h, recv, <<s, s>>, 1)

VecDivideInPlace ==
    /\ calls < MaxVecCalls
    /\ \E n \in VecNames, s \in Scalars(VecNames) :
           /\ Built(n)
           /\ InPlaceEffect("divideInPlace", n, "", s.raw,
                            vecDivideInPlace(SharedRaw(heap),
                                             (s.ref :> s.raw) @@ heap,
                                             vec[n].refs, s.ref))

\* n = FixedMatrix2x2.identity(): new FixedMatrix2x2(1, 0, 0, 1)
MatIdentity ==
    /\ calls < MaxVecCalls
    /\ \E n \in MatNames :
           Build("identity", n, "",
                 <<NewFixed(n, 1), NewFixed(n, 2), NewFixed(n, 3), NewFixed(n, 4)>>,
                 "",
                 (NewFixed(n, 1) :> FixedOfInt(1)) @@ (NewFixed(n, 2) :> FixedOfInt(0))
                     @@ (NewFixed(n, 3) :> FixedOfInt(0))
                     @@ (NewFixed(n, 4) :> FixedOfInt(1)) @@ heap)

\* n = FixedMatrix2x2.scaling(new Fixed(x)) and n =
\* FixedMatrix2x2.scaling(new Fixed(x), new Fixed(y)): sy = scaleY || scaleX
MatScaling ==
    /\ calls < MaxVecCalls
    /\ \E n \in MatNames, x \in VecRaws, given \in BOOLEAN :
           Build("scaling", n, "",
                 <<NewFixed(n, 1), SharedId.ZERO, SharedId.ZERO,
                   IF given THEN NewFixed(n, 2) ELSE NewFixed(n, 1)>>,
                 "",
                 (NewFixed(n, 1) :> x) @@ (NewFixed(n, 2) :> FixedOfInt(2)) @@ heap)

\* n = FixedMatrix2x2.shear(new Fixed(x), new Fixed(y))
MatShear ==
    /\ calls < MaxVecCalls
    /\ \E n \in MatNames, x \in VecRaws :
           Build("shear", n, "",
                 <<SharedId.ONE, NewFixed(n, 1), NewFixed(n, 2), SharedId.ONE>>,
                 "",
                 (NewFixed(n, 1) :> x) @@ (NewFixed(n, 2) :> FixedOfInt(2)) @@ heap)

MatAddInPlace ==
    /\ calls < MaxVecCalls
    /\ \E n \in MatNames, o \in MatNames :
           /\ Built(n) /\ Built(o)
           /\ InPlaceEffect("addInPlace", n, o, 0,
                            eachInPlace("addInPlace", heap, vec[n].refs,
                                        vec[o].refs, 1))

MatSubtractInPlace ==
    /\ calls < MaxVecCalls
    /\ \E n \in MatNames, o \in MatNames :
           /\ Built(n) /\ Built(o)
           /\ InPlaceEffect("subtractInPlace", n, o, 0,
                            eachInPlace("subtractInPlace", heap, vec[n].refs,
                                        vec[o].refs, 1))

MatMultiplyScalarInPlace ==
    /\ calls < MaxVecCalls
    /\ \E n \in MatNames, s \in Scalars(MatNames) :
           /\ Built(n)
           /\ InPlaceEffect("multiplyScalarInPlace", n, "", s.raw,
                            eachInPlace("multiplyScalarInPlace",
                                        (s.ref :> s.raw) @@ heap, vec[n].refs,
                                        <<s.ref, s.ref, s.ref, s.ref>>, 1))

\* the keys a FixedPositionComponent has (key in this) that do not start
\* with an underscore
ComponentKeys ==
    {"position", "x", "y", "enabled"}

\* the properties objects the client passes: a value is a number (its raw
\* value is given) or a string
PropsInputs ==
    LET Num(r) == [type |-> "number", raw |-> r, str |-> <<>>]
        Str(s) == [type |-> "string", raw |-> 0, str |-> s]
    IN  { [k \in {} |-> Num(0)],
          "x" :> Num(5 * SCALE),
          "y" :> Num(6 * SCALE),
          ("x" :> Num(5 * SCALE)) @@ ("y" :> Num(6 * SCALE)),
          ("x" :> Num(2500000)) @@ ("y" :> Num(-SCALE)),
          ("x" :> Str(<<"7">>)) @@ ("y" :> Num(6 * SCALE)),
          ("x" :> Num(5 * SCALE)) @@ ("y" :> Str(<<"8">>)),
          "someOtherProp" :> Str(<<"i", "n", "v", "a", "l", "i", "d">>),
          ("someOtherProp" :> Num(SCALE)) @@ ("x" :> Num(5 * SCALE)) }

\* new Fixed(value) for the value of a property
FixedOfValue(val) ==
    IF val.type = "number" THEN FixedOfNumber(toNumber(val.raw)).raw
    ELSE FixedOfString(val.str).raw

\* Component.setSerializableProperties: each key of properties that the
\* component has is assigned; for x and y the setter stores new Fixed(value)
\* in position.x or position.y.  st is the position and the heap.
baseSetProperties(props, st, fx, fy) ==
    [refs |-> <<IF "x" \in DOMAIN props \cap ComponentKeys THEN fx ELSE st.refs[1],
                IF "y" \in DOMAIN props \cap ComponentKeys THEN fy ELSE st.refs[2]>>,
     heap |-> (IF "x" \in DOMAIN props \cap ComponentKeys
               THEN fx :> FixedOfValue(props["x"]) ELSE <<>>)
              @@ (IF "y" \in DOMAIN props \cap ComponentKeys
                  THEN fy :> FixedOfValue(props["y"]) ELSE <<>>)
              @@ st.heap]

BothNumbers(props) ==
    /\ {"x", "y"} \subseteq DOMAIN props
    /\ props["x"].type = "number" /\ props["y"].type = "number"

\* FixedPositionComponent.setSerializableProperties
setSerializableProperties(props, st, fx, fy) ==
    IF BothNumbers(props)
    THEN [refs |-> <<fx, fy>>,
          heap |-> (fx :> FixedOfValue(props["x"]))
                       @@ (fy :> FixedOfValue(props["y"])) @@ st.heap]
    ELSE baseSetProperties(props, st, fx, fy)

PropertiesEffect(props, out) ==
    /\ vec' = Rebuilt(vec, "position", out.refs, "")
    /\ heap' = [o \in VecLive(Rebuilt(vec, "position", out.refs, "")) |-> out.heap[o]]
    /\ calls' = calls + 1
    /\ last' = [NoCall EXCEPT !.op = "setSerializableProperties",
                              !.recv = "position", !.props = props,
                              !.a = heap[vec["position"].refs[1]],
                              !.b = heap[vec["position"].refs[2]]]
    /\ UNCHANGED <<reg, cache>>

SetSerializableProperties ==
    /\ calls < MaxVecCalls
    /\ \E props \in PropsInputs :
           PropertiesEffect(props,
               setSerializableProperties(props,
                   [refs |-> vec["position"].refs, heap |-> heap],
                   NewFixed("position", 1), NewFixed("position", 2)))

\* the program after const component = new FixedPositionComponent()
InitVec ==
    /\ vec = [n \in VecNames \cup MatNames |->
                IF n = "position"
                THEN [refs |-> <<Cardinality(SharedObjs) + 1,
                                 Cardinality(SharedObjs) + 2>>, copyOf |-> ""]
                ELSE NoVec]
    /\ heap = [o \in SharedObjs \cup {Cardinality(SharedObjs) + 1,
                                      Cardinality(SharedObjs) + 2} |->
                 IF o \in SharedObjs
                 THEN StartupRaw[CHOOSE n \in SharedNames : SharedId[n] = o]
                 ELSE FixedOfInt(0)]
    /\ reg = [r \in Regs |-> 0]
    /\ cache = [k \in {} |-> 0]
    /\ calls = 0
    /\ last = NoCall

NextVec ==
    \/ VecNew \/ VecNewFixed \/ VecClone \/ VecSetFrom \/ VecReset
    \/ SetPositionFromVector \/ SetSerializableProperties
    \/ VecAddInPlace \/ VecSubtractInPlace
    \/ VecMultiplyInPlace \/ VecDivideInPlace
    \/ MatIdentity \/ MatScaling \/ MatShear
    \/ MatAddInPlace \/ MatSubtractInPlace \/ MatMultiplyScalarInPlace

SpecVec == InitVec /\ [][NextVec]_vars

(***************************************************************************)
(* Claims about construction and the cache                                 *)
(***************************************************************************)
\* s is a decimal from its first to its last character: an optional sign,
\* digits, and optionally a point with digits, at least one digit in all
ValidDecimal(s) ==
    \E b \in 1 .. 2, c \in 1 .. (Len(s) + 1), d \in 1 .. (Len(s) + 1) :
        /\ b = 2 <=> (Len(s) > 0 /\ s[1] \in {"+", "-"})
        /\ b <= c /\ c <= d
        /\ \A k \in b .. (c - 1) : IsDigit(s[k])
        /\ d > c => s[c] = "."
        /\ \A k \in (c + 1) .. (d - 1) : IsDigit(s[k])
        /\ d = Len(s) + 1
        /\ (c - b) + (IF d > c THEN d - c - 1 ELSE 0) > 0

\* C18: constructing a Fixed from a string that is not a valid decimal
\* fails: an error is signalled and no Fixed value (in particular none
\* whose raw value is not an integer) is produced.
C18_InvalidStringFails ==
    (last.op = "fromString" /\ ~ValidDecimal(last.str)) =>
        last.err # "" /\ ~last.nan


\* C19 (as stated): two calls of Fixed.cached whose values have the same
\* rounded raw value return the same instance, whatever calls of cached
\* happen between them.  (x is the instance the client's first call for 1.5
\* returned.)
C19_CachedReturnsSameInstance ==
    (last.op = "cached" /\ last.raw = 1500000 /\ reg["x"] # 0) =>
        last.ref = reg["x"]

\* the call of cached in a step found the cache full and did not find its
\* raw value in it
ClearingCall ==
    /\ last'.op = "cached" /\ last'.raw \notin DOMAIN cache
    /\ Cardinality(DOMAIN cache) >= MAX_CACHE_SIZE

\* C19 (amended): a call of Fixed.cached returns the instance the cache
\* holds for its rounded raw value, and the cache keeps the instance of
\* every raw value until a call clears it; so two calls with the same
\* rounded raw value return the same instance unless a call between them
\* asked for a raw value not in the cache while it held MAX_CACHE_SIZE
\* entries.
C19_SameInstanceUntilCleared ==
    [][/\ (last'.op = "cached" /\ last'.raw \in DOMAIN cache) =>
              last'.ref = cache[last'.raw]
       /\ ClearingCall
              \/ \A r \in DOMAIN cache :
                     r \in DOMAIN cache' /\ cache'[r] = cache[r]]_vars

\* after at least one round of the loop, a call for 1.5 returned the
\* instance of the first call for 1.5
C19_Witness ==
    /\ last.op = "cached" /\ last.raw = 1500000 /\ last.src = "cache"
    /\ calls > 0 /\ last.ref = reg["x"]

\* C20: the cache never holds more than MAX_CACHE_SIZE entries; a call for
\* a raw value not in the cache while it holds MAX_CACHE_SIZE entries
\* clears it, and afterwards it holds exactly the one new entry.
C20_CacheBounded ==
    [][/\ Cardinality(DOMAIN cache') <= MAX_CACHE_SIZE
       /\ ClearingCall => DOMAIN cache' = {last'.raw}]_vars

\* the loop has filled the cache and its next call has cleared it
C20_Witness ==
    /\ calls > MAX_CACHE_SIZE /\ last.op = "cached" /\ last.src = "new"
    /\ DOMAIN cache = {last.raw}


\* C21: the instances the cache holds are never changed: every entry maps
\* its raw key to an instance whose raw value is the key, and a call of
\* Fixed.cached(v) returns an instance whose raw value is round(v * SCALE),
\* whatever was done with the instances earlier calls returned.
C21_CachedInstancesKeepTheirKey ==
    /\ \A k \in DOMAIN cache : heap[cache[k]] = k
    /\ last.op = "cached" => last.raw = FixedOfNumber(toNumber(last.a)).raw


\* C22: every operation returns or raises, and no loop of an operation runs
\* more rounds than a fixed number that is the same for every input: the
\* loop of sqrt at most SQRT_MAX_ITER, and the loops of the angle
\* normalisation no more than that largest of the caps the class sets.
C22_LoopRoundsCapped ==
    /\ last.err # Diverges
    /\ last.op \in {"sqrt", "normalizeAngle"} => last.iters <= SQRT_MAX_ITER


(***************************************************************************)
(* Claims about vectors, matrices and components (specification SpecVec)   *)
(***************************************************************************)
\* the in-place operations of FixedVector2 and FixedMatrix2x2
AggregateInPlaceOps ==
    {"addInPlace", "subtractInPlace", "multiplyInPlace", "divideInPlace",
     "multiplyScalarInPlace"}

\* what add, subtract, multiply, divide and multiplyScalar return for the
\* component values xs and the argument's values ys: each component is the
\* Fixed operation of the two values, and divide raises for a scalar equal
\* to Fixed.ZERO
ValueOpOfAggregate(K, op, xs, ys) ==
    LET outs == [k \in DOMAIN xs |->
                    CASE op = "addInPlace"      -> add(xs[k], ys[k])
                      [] op = "subtractInPlace" -> subtract(xs[k], ys[k])
                      [] op = "divideInPlace"   -> divide(xs[k], ys[k])
                      [] OTHER                  -> multiply(xs[k], ys[k])]
    IN  IF op = "divideInPlace" /\ ys[1] = K.ZERO
        THEN [err |-> "Division by zero vector", vals |-> xs]
        ELSE IF \E k \in DOMAIN xs : outs[k].err # ""
        THEN [err |-> outs[CHOOSE k \in DOMAIN xs : outs[k].err # ""].err,
              vals |-> xs]
        ELSE [err |-> "", vals |-> [k \in DOMAIN xs |-> outs[k].raw]]

\* the step is a call of an in-place operation of a vector or matrix
AggregateInPlaceStep ==
    last'.recv # "" /\ last'.op \in AggregateInPlaceOps

\* what the non-in-place operation returns for the operands of the step
WantedOfStep ==
    ValueOpOfAggregate(SharedRaw(heap), last'.op,
                       Values(heap, vec, last'.recv),
                       IF last'.arg # "" THEN Values(heap, vec, last'.arg)
                       ELSE [k \in DOMAIN vec[last'.recv].refs |-> last'.b])

\* C23: an in-place operation of a vector or matrix, however the object was
\* built, leaves the receiver component-wise equal to what the non-in-place
\* operation returns for the operands as they were (and raises when that
\* raises), and changes the components of no other vector or matrix.
C23_InPlaceMatchesValueOp ==
    [][(AggregateInPlaceStep /\ WantedOfStep.err # OutOfModel) =>
          /\ (last'.err = "") = (WantedOfStep.err = "")
          /\ last'.err = "" =>
                 Values(heap', vec', last'.recv) = WantedOfStep.vals
          /\ \A q \in DOMAIN vec \ {last'.recv} :
                 Values(heap', vec', q) = Values(heap, vec, q)]_vars

\* C24: a vector made by clone(), and the position a component stored by
\* setPositionFromVector, is an independent copy: an in-place operation on
\* the original leaves the components of the copy unchanged, and an
\* in-place operation on the copy leaves the original unchanged.
C24_CloneIsIndependent ==
    [][AggregateInPlaceStep =>
          \A q \in VecNames \ {last'.recv} :
              (vec[q].copyOf = last'.recv \/ vec[last'.recv].copyOf = q) =>
                  Values(heap', vec', q) = Values(heap, vec, q)]_vars

\* C25: setSerializableProperties with properties in which x and y are not
\* both numbers leaves the position of the component as it was (last.a,
\* last.b); when both are numbers the position becomes (x, y).
C25_InvalidPropertiesLeavePosition ==
    last.op = "setSerializableProperties" =>
        Values(heap, vec, "position") =
            IF BothNumbers(last.props)
            THEN <<FixedOfNumber(toNumber(last.props["x"].raw)).raw,
                   FixedOfNumber(toNumber(last.props["y"].raw)).raw>>
            ELSE <<last.a, last.b>>


(***************************************************************************)
(* Claims about the trigonometric functions (specification SpecCalc)       *)
(***************************************************************************)
\* C26: the normalisation step of sin returns for every angle a value n
\* with -PI.raw < n.raw <= PI.raw that differs from the angle by a whole
\* multiple of TWO_PI.raw, and returns an angle already in (-PI, PI] with
\* its raw value unchanged.
C26_NormalizedIntoHalfOpenTurn ==
    last.op = "normalizeAngle" =>
        /\ last.err = ""
        /\ -StartupRaw.PI < last.raw /\ last.raw <= StartupRaw.PI
        /\ (last.raw - last.a) % StartupRaw.TWO_PI = 0
        /\ (-StartupRaw.PI < last.a /\ last.a <= StartupRaw.PI) =>
               last.raw = last.a

\* the angle -PI, which is not in (-PI, PI], was normalised
C26_Witness ==
    /\ last.op = "normalizeAngle" /\ last.a = -StartupRaw.PI
    /\ last.raw = 3141592 /\ last.iters = 1


\* a.multiply(b).negate(), and a.divide(b).negate() for the call
\* a.negate().divide(b)
NegatedAfterwards(op, a, b) ==
    IF op = "negate.divide" THEN Then(divide(a, b), LAMBDA q : negate(q))
    ELSE Then(multiply(a, b), LAMBDA p : negate(p))

\* the exact quotient the call rounds lies halfway between two integers
ExactTie(op, a, b) ==
    IF op = "negate.divide"
    THEN b # 0 /\ 2 * MulDivQR(Abs(a), SCALE, Abs(b)).r = Abs(b)
    ELSE 2 * MulDivQR(Abs(a), Abs(b), SCALE).r = SCALE

C28_SinCosWithinUnit ==
    last.op \in {"sin", "cos"} =>
        /\ last.err = ""
        /\ Abs(last.raw) <= SCALE
        /\ asin(SharedRaw(heap), last.raw).err = ""


\* C29: sin is odd on raw values: sin(x.negate()) has the raw value of
\* sin(x).negate() for every angle x, the angles of SIN_TABLE and their
\* negatives among them.
C29_SinOdd ==
    last.op = "sin" =>
        /\ last.err = ""
        /\ sin(SharedRaw(heap), -last.a).raw = -last.raw

\* the quotient x / sqrt(1 + x * x) that atan passes to asin
AtanQuotient(K, a) ==
    Then(Then(Then(multiply(a, a), LAMBDA x_squared : add(K.ONE, x_squared)),
              LAMBDA s : sqrt(K, s)),
         LAMBDA denominator : divide(a, denominator))

\* atan returns a value in [-PI_2, PI_2] and raises nothing, the quotient it
\* passes to asin being at most 1 in magnitude
AtanTotal ==
    last.op = "atan" =>
        /\ last.err = ""
        /\ -StartupRaw.PI_2 <= last.raw /\ last.raw <= StartupRaw.PI_2
        /\ AtanQuotient(SharedRaw(heap), last.a).err = ""
        /\ Abs(AtanQuotient(SharedRaw(heap), last.a).raw) <= SCALE

\* C30 (as stated): atan is total, and atan2(y, x) for (y, x) other than
\* (0, 0) raises nothing and returns a value in (-PI, PI].
C30_Atan2InHalfOpenTurn ==
    /\ AtanTotal
    /\ (last.op = "atan2" /\ (last.a # 0 \/ last.b # 0)) =>
           /\ last.err = ""
           /\ -StartupRaw.PI < last.raw /\ last.raw <= StartupRaw.PI

\* C30 (amended): atan is total, and atan2(y, x) for (y, x) other than
\* (0, 0) raises nothing and returns a value in [-PI, PI]; it returns -PI
\* exactly when x and y are negative and y / x rounds to the raw value 0.
C30_Atan2InClosedTurn ==
    /\ AtanTotal
    /\ (last.op = "atan2" /\ (last.a # 0 \/ last.b # 0)) =>
           /\ last.err = ""
           /\ -StartupRaw.PI <= last.raw /\ last.raw <= StartupRaw.PI
           /\ (last.raw = -StartupRaw.PI)
                  <=> (last.a < 0 /\ last.b < 0 /\ divide(last.a, last.b).raw = 0)

\* atan2 of the raw values -1 and -3000000 returned -PI
C30_Witness ==
    /\ last.op = "atan2" /\ last.a = -1 /\ last.b = -3 * SCALE
    /\ last.err = "" /\ last.raw = -StartupRaw.PI

====
